---- MODULE Spec2Model ----
(***************************************************************************)
(* A model of vscode-sml: the TextMate grammar of Standard ML (the pattern *)
(* composers, the token catalog and the rule repository), the region       *)
(* tokenizer that runs over it, and the SML/NJ diagnostic collaborator     *)
(* (Transducer and SML in extension.ts).                                   *)
(*                                                                         *)
(* Text is a sequence of one-character strings; offsets are 0-based, so    *)
(* the character at offset i is t[i+1].                                    *)
(***************************************************************************)
EXTENDS Integers, Sequences, FiniteSets, TLC

(***************************************************************************)
(* Regular patterns.  The source builds every pattern by concatenating     *)
(* strings, so a pattern is kept in the shape the regex parser gives that  *)
(* string: a sequence of alternatives (split at the top-level "|"), each a *)
(* sequence of atoms.  Concatenating "a|b" and "c" therefore yields        *)
(* "a|bc", exactly as in the source.                                       *)
(***************************************************************************)
Atom(a) == << <<a>> >>

Chr(c) == Atom([k |-> "chr", c |-> c])

RECURSIVE Str(_)
Str(s) ==
  IF Len(s) = 0 THEN << <<>> >>
  ELSE LET r == Str(Tail(s)) IN << <<[k |-> "chr", c |-> Head(s)]>> \o r[1] >>

\* String concatenation of two patterns: the last alternative of x and the
\* first of y run together.
Cat(x, y) ==
  SubSeq(x, 1, Len(x) - 1) \o << x[Len(x)] \o y[1] >> \o Tail(y)

\* A postfix quantifier binds to the last atom of the string before it.
Quant(q, x) ==
  LET n == Len(x)
      m == Len(x[n])
  IN  [x EXCEPT ![n] = [x[n] EXCEPT ![m] = [k |-> q, a |-> x[n][m]]]]

Letters(s) == {s[i] : i \in 1..Len(s)}

Lower == Letters(<<"a","b","c","d","e","f","g","h","i","j","k","l","m",
                   "n","o","p","q","r","s","t","u","v","w","x","y","z">>)
Upper == Letters(<<"A","B","C","D","E","F","G","H","I","J","K","L","M",
                   "N","O","P","Q","R","S","T","U","V","W","X","Y","Z">>)
Digit == {"0","1","2","3","4","5","6","7","8","9"}

Cls ==
  [ alnum |-> Lower \cup Upper \cup Digit,
    alpha |-> Lower \cup Upper,
    digit |-> Digit,
    lower |-> Lower,
    space |-> {" ", "\t", "\n", "\r"},
    upper |-> Upper,
    word  |-> Lower \cup Upper \cup Digit \cup {"_"} ]

\* A field whose name is a reserved word carries a trailing underscore.
Kwd ==
  [ ABSTYPE |-> Str(<<"a","b","s","t","y","p","e">>),
    AND |-> Str(<<"a","n","d">>),
    ANDALSO |-> Str(<<"a","n","d","a","l","s","o">>),
    AS |-> Str(<<"a","s">>),
    CASE_ |-> Str(<<"c","a","s","e">>),
    DATATYPE |-> Str(<<"d","a","t","a","t","y","p","e">>),
    DO |-> Str(<<"d","o">>),
    ELSE_ |-> Str(<<"e","l","s","e">>),
    END |-> Str(<<"e","n","d">>),
    EQTYPE |-> Str(<<"e","q","t","y","p","e">>),
    EXCEPTION |-> Str(<<"e","x","c","e","p","t","i","o","n">>),
    FALSE |-> Str(<<"f","a","l","s","e">>),
    FN |-> Str(<<"f","n">>),
    FUN |-> Str(<<"f","u","n">>),
    FUNCTOR |-> Str(<<"f","u","n","c","t","o","r">>),
    HANDLE |-> Str(<<"h","a","n","d","l","e">>),
    IF_ |-> Str(<<"i","f">>),
    IN_ |-> Str(<<"i","n">>),
    INFIX |-> Str(<<"i","n","f","i","x">>),
    INFIXR |-> Str(<<"i","n","f","i","x","r">>),
    INCLUDE |-> Str(<<"i","n","c","l","u","d","e">>),
    LET_ |-> Str(<<"l","e","t">>),
    LOCAL_ |-> Str(<<"l","o","c","a","l">>),
    NONFIX |-> Str(<<"n","o","n","f","i","x">>),
    OF |-> Str(<<"o","f">>),
    OP |-> Str(<<"o","p">>),
    OPEN |-> Str(<<"o","p","e","n">>),
    ORELSE |-> Str(<<"o","r","e","l","s","e">>),
    RAISE |-> Str(<<"r","a","i","s","e">>),
    REC |-> Str(<<"r","e","c">>),
    SHARING |-> Str(<<"s","h","a","r","i","n","g">>),
    SIG |-> Str(<<"s","i","g">>),
    SIGNATURE |-> Str(<<"s","i","g","n","a","t","u","r","e">>),
    STRUCT |-> Str(<<"s","t","r","u","c","t">>),
    STRUCTURE |-> Str(<<"s","t","r","u","c","t","u","r","e">>),
    THEN_ |-> Str(<<"t","h","e","n">>),
    TRUE |-> Str(<<"t","r","u","e">>),
    TYPE |-> Str(<<"t","y","p","e">>),
    VAL |-> Str(<<"v","a","l">>),
    WHERE |-> Str(<<"w","h","e","r","e">>),
    WHILE |-> Str(<<"w","h","i","l","e">>),
    WITH_ |-> Str(<<"w","i","t","h">>),
    WITHTYPE |-> Str(<<"w","i","t","h","t","y","p","e">>) ]

decStart ==
  << Kwd.ABSTYPE, Kwd.AND, Kwd.DATATYPE, Kwd.EXCEPTION, Kwd.FUN, Kwd.INFIX,
     Kwd.INFIXR, Kwd.LOCAL_, Kwd.NONFIX, Kwd.OPEN, Kwd.TYPE, Kwd.VAL >>

decEnd == decStart \o << Kwd.END, Kwd.IN_ >>

topdecStart ==
  decStart \o << Kwd.INCLUDE, Kwd.LOCAL_, Kwd.FUNCTOR, Kwd.SIGNATURE, Kwd.STRUCTURE >>

topdecEnd == topdecStart \o << Kwd.END, Kwd.IN_ >>

\* The grave accent, which the module's own lexer cannot hold in a string.
GRAVE == "GRAVE"

\* TokSet: TokSet_operator for the source's TokSet.operator; its other
\* members are decEnd, decStart, topdecEnd and topdecStart above.
TokSet_operator ==
  {":", "!", "?", "'", "@", "/", "-", "*", "\\", "+", "|", "&",
   "#", "%", GRAVE, "^", "<", "=", ">", "~", "$"}

RECURSIVE alt(_)
alt(rest) ==
  IF Len(rest) = 1 THEN rest[1] ELSE rest[1] \o alt(Tail(rest))

RECURSIVE seq(_)
seq(rest) ==
  IF Len(rest) = 0 THEN << <<>> >>
  ELSE IF Len(rest) = 1 THEN rest[1] ELSE Cat(rest[1], seq(Tail(rest)))

capture(n, arg) == Atom([k |-> "cap", n |-> n, p |-> arg])
complement(cs) == Atom([k |-> "nset", cs |-> cs])
group(arg) == Atom([k |-> "grp", p |-> arg])
lookBehind(arg) == Atom([k |-> "lb", p |-> arg])
negativeLookBehind(arg) == Atom([k |-> "nlb", p |-> arg])
Bol == Atom([k |-> "bol"])
Eol == Atom([k |-> "eol"])
WordB == Atom([k |-> "wb"])

RECURSIVE lastOps(_)
lastOps(rest) ==
  LET token == rest[1]
      two == Cat(complement(TokSet_operator), token) \o Cat(Bol, token)
  IN  IF Len(rest) = 1 THEN two ELSE two \o lastOps(Tail(rest))

RECURSIVE lastWords(_)
lastWords(rest) ==
  LET token == rest[1]
      two == Cat(complement(Cls.word), token) \o Cat(Bol, token)
  IN  IF Len(rest) = 1 THEN two ELSE two \o lastWords(Tail(rest))

many(arg) == Quant("star", arg)
manyOne(arg) == Quant("plus", arg)
opt(arg) == Quant("opt", arg)
words(arg) == Cat(Cat(WordB, arg), WordB)
lookAhead(arg) == Atom([k |-> "la", p |-> arg])
ops(arg) ==
  seq(<< lookBehind(complement(TokSet_operator)), arg,
         lookAhead(complement(TokSet_operator)) >>)
\* The source writes (?!=arg): a negative lookahead for "=" followed by arg.
negativeLookAhead(arg) == Atom([k |-> "nla", p |-> Cat(Chr("="), arg)])
set(cs) == Atom([k |-> "set", cs |-> cs])

Gph ==
  [ APOSTROPHE |-> Chr("'"),
    ASTERISK |-> Chr("*"),
    COLON |-> Chr(":"),
    COMMA |-> Chr(","),
    EQUALS_SIGN |-> Chr("="),
    ELLIPSIS |-> Str(<<".", ".", ".">>),
    FULL_STOP |-> Chr("."),
    GREATER_THAN_SIGN |-> Chr(">"),
    HYPHEN_MINUS |-> Chr("-"),
    LEFT_CURLY_BRACKET |-> Chr("{"),
    LEFT_PARENTHESIS |-> Chr("("),
    LEFT_SQUARE_BRACKET |-> Chr("["),
    LOW_LINE |-> Chr("_"),
    NUMBER_SIGN |-> Chr("#"),
    RIGHT_CURLY_BRACKET |-> Chr("}"),
    RIGHT_PARENTHESIS |-> Chr(")"),
    RIGHT_SQUARE_BRACKET |-> Chr("]"),
    QUOTATION_MARK |-> Chr("\""),
    SEMICOLON |-> Chr(";"),
    VERTICAL_LINE |-> Chr("|") ]

ClosingBrackets ==
  << Gph.RIGHT_CURLY_BRACKET, Gph.RIGHT_PARENTHESIS, Gph.RIGHT_SQUARE_BRACKET >>

\* The shape shared by the three terminators: lookAhead(alt(brackets...,
\* seq(words(group(alt(kws))), group(alt("$", [[:space:]], ops(alt(closers))))))).
Terminator(brackets, kws, closers) ==
  lookAhead(
    alt(brackets \o
        << seq(<< words(group(alt(kws))),
                  group(alt(<< Eol, set(Cls.space), ops(alt(closers)) >>)) >>) >>))

RxExpEnd ==
  Terminator(<< Gph.COMMA >> \o ClosingBrackets, topdecEnd,
             << Gph.COMMA >> \o ClosingBrackets)

\* Rx.topdecEndSansType with the type keyword left in its keyword list.
RxTopdecEndWithType == Terminator(ClosingBrackets, topdecEnd, ClosingBrackets)

RxTopdecEndSansType ==
  Terminator(ClosingBrackets,
             SelectSeq(topdecEnd, LAMBDA x : x # Kwd.TYPE),
             ClosingBrackets)

\* Rx.topdecEnd with only the closing keywords in its keyword list.
RxTopdecEndClosersOnly ==
  Terminator(ClosingBrackets, << Kwd.END, Kwd.IN_ >>, ClosingBrackets)

RxTopdecEnd == Terminator(ClosingBrackets, topdecEnd, ClosingBrackets)

operator ==
  seq(<< set(Cls.alpha), many(set(TokSet_operator)),
         group(alt(<< WordB, lookAhead(set(Cls.space)) >>)) >>)

identifier ==
  seq(<< set(Cls.alpha), many(set(Cls.alnum \cup {"'", "_"})),
         group(alt(<< WordB, lookAhead(set(Cls.space)) >>)) >>)

\* Object.keys(Kwd).map((key) => Kwd[key]): every keyword, in declaration order.
AllKwd ==
  << Kwd.ABSTYPE, Kwd.AND, Kwd.ANDALSO, Kwd.AS, Kwd.CASE_, Kwd.DATATYPE, Kwd.DO,
     Kwd.ELSE_, Kwd.END, Kwd.EQTYPE, Kwd.EXCEPTION, Kwd.FALSE, Kwd.FN, Kwd.FUN,
     Kwd.FUNCTOR, Kwd.HANDLE, Kwd.IF_, Kwd.IN_, Kwd.INFIX, Kwd.INFIXR,
     Kwd.INCLUDE, Kwd.LET_, Kwd.LOCAL_, Kwd.NONFIX, Kwd.OF, Kwd.OP, Kwd.OPEN,
     Kwd.ORELSE, Kwd.RAISE, Kwd.REC, Kwd.SHARING, Kwd.SIG, Kwd.SIGNATURE,
     Kwd.STRUCT, Kwd.STRUCTURE, Kwd.THEN_, Kwd.TRUE, Kwd.TYPE, Kwd.VAL,
     Kwd.WHERE, Kwd.WHILE, Kwd.WITH_, Kwd.WITHTYPE >>

LexOperator ==
  seq(<< negativeLookAhead(ops(alt(<< Gph.VERTICAL_LINE >>))),
         manyOne(set(TokSet_operator)) >>)

\* Lex.tyvar with the identifier left out of its capture group.
LexTyvarUncaptured ==
  seq(<< negativeLookAhead(words(group(alt(AllKwd)))),
         seq(<< capture(1, Gph.APOSTROPHE), identifier >>) >>)

LexTyvar ==
  seq(<< negativeLookAhead(words(group(alt(AllKwd)))),
         seq(<< capture(1, Gph.APOSTROPHE), capture(2, identifier) >>) >>)

LexVid ==
  seq(<< negativeLookAhead(words(group(alt(AllKwd)))),
         seq(<< WordB, identifier >>) >>)

(***************************************************************************)
(* The regular-expression engine: a backtracking matcher.  Match(t, p, i)  *)
(* is the sequence of ways p matches t starting at offset i, in the        *)
(* engine's order of preference; each is [e |-> end offset, c |-> the      *)
(* capture groups that took part, as <<number, start, end>>].              *)
(***************************************************************************)
\* Strict1..Strict5 hand their arguments to F as values.  TLC evaluates an
\* operator's argument anew at each use of the parameter while it evaluates
\* ENABLED; the operators below take their arguments through these so that
\* each is evaluated once.
Strict1(a, F(_)) == CHOOSE y \in { F(x1) : x1 \in {a} } : TRUE

Strict2(a, b, F(_, _)) ==
  CHOOSE y \in { F(x1, x2) : x1 \in {a}, x2 \in {b} } : TRUE

Strict3(a, b, c, F(_, _, _)) ==
  CHOOSE y \in { F(x1, x2, x3) : x1 \in {a}, x2 \in {b}, x3 \in {c} } : TRUE

Strict4(a, b, c, d, F(_, _, _, _)) ==
  CHOOSE y \in { F(x1, x2, x3, x4) :
                   x1 \in {a}, x2 \in {b}, x3 \in {c}, x4 \in {d} } : TRUE

Strict5(a, b, c, d, e, F(_, _, _, _, _)) ==
  CHOOSE y \in { F(x1, x2, x3, x4, x5) :
                   x1 \in {a}, x2 \in {b}, x3 \in {c}, x4 \in {d}, x5 \in {e} } : TRUE

IsWordAt(t, i) == i >= 1 /\ i <= Len(t) /\ t[i] \in Cls.word

Here(i) == << [e |-> i, c |-> <<>>] >>

RECURSIVE MatchAlts(_, _, _, _, _)
RECURSIVE MatchAtoms(_, _, _, _)
RECURSIVE Thread(_, _, _, _, _)
RECURSIVE MatchAtom(_, _, _)
RECURSIVE Repeat(_, _, _)
RECURSIVE RepeatEach(_, _, _, _)
RECURSIVE Lazy(_, _, _, _)

Match(t, p, i) == MatchAlts(t, p, i, 1, Len(p))

\* The matches of the alternatives of p from the lo-th to the hi-th, the
\* earlier alternative's first.
MatchAlts(t0, p0, i0, lo0, hi0) ==
  Strict5(t0, p0, i0, lo0, hi0, LAMBDA t, p, i, lo, hi :
    IF lo > hi THEN <<>>
    ELSE IF lo = hi THEN MatchAtoms(t, p[lo], 1, Here(i))
    ELSE MatchAlts(t, p, i, lo, (lo + hi) \div 2)
         \o MatchAlts(t, p, i, (lo + hi) \div 2 + 1, hi))

\* The matches of the atoms from the n-th on, after the matches rs of the
\* atoms before it, in the order of preference.
MatchAtoms(t0, as0, n0, rs0) ==
  Strict4(t0, as0, n0, rs0, LAMBDA t, as, n, rs :
    IF n > Len(as) \/ Len(rs) = 0 THEN rs
    ELSE MatchAtoms(t, as, n + 1, Thread(t, as[n], rs, 1, Len(rs))))

\* The matches of the atom a after each of the matches rs from the lo-th to
\* the hi-th, in their order.
Thread(t0, a0, rs0, lo0, hi0) ==
  Strict5(t0, a0, rs0, lo0, hi0, LAMBDA t, a, rs, lo, hi :
    IF lo > hi THEN <<>>
    ELSE IF lo = hi
         THEN Strict1(MatchAtom(t, a, rs[lo].e), LAMBDA more :
                [k \in 1..Len(more) |->
                   [e |-> more[k].e, c |-> rs[lo].c \o more[k].c]])
         ELSE Thread(t, a, rs, lo, (lo + hi) \div 2)
              \o Thread(t, a, rs, (lo + hi) \div 2 + 1, hi))

\* An atom that takes exactly one character and captures nothing.
IsChar(a) == a.k \in {"chr", "set", "nset", "any"}

\* The number of characters from offset i on that the one-character atom a
\* takes one after the other.
Run(t, a, i) ==
  CHOOSE n \in 0..(Len(t) - i) :
    /\ \A j \in 1..n : Len(MatchAtom(t, a, i + j - 1)) > 0
    /\ n = Len(t) - i \/ Len(MatchAtom(t, a, i + n)) = 0

\* Greedy repetition: one more round first, then stopping here.
Repeat(t, a, i) ==
  IF IsChar(a)
  THEN Strict1(Run(t, a, i), LAMBDA run :
         [k \in 1..(run + 1) |-> [e |-> i + run + 1 - k, c |-> <<>>]])
  ELSE RepeatEach(t, a, i, MatchAtom(t, a, i)) \o Here(i)

RepeatEach(t0, a0, i0, rs0) ==
  Strict4(t0, a0, i0, rs0, LAMBDA t, a, i, rs :
    IF Len(rs) = 0 THEN <<>>
    ELSE (IF rs[1].e > i
          THEN Strict1(Repeat(t, a, rs[1].e), LAMBDA more :
                 [n \in 1..Len(more) |->
                    [e |-> more[n].e, c |-> rs[1].c \o more[n].c]])
          ELSE <<>>)
         \o RepeatEach(t, a, i, Tail(rs)))

\* Lazy repetition, one or more: stopping after a round first, then one more.
Lazy(t0, a0, i0, rs0) ==
  Strict4(t0, a0, i0, rs0, LAMBDA t, a, i, rs :
    IF IsChar(a)
    THEN Strict1(Run(t, a, i), LAMBDA run : [k \in 1..run |-> [e |-> i + k, c |-> <<>>]])
    ELSE IF Len(rs) = 0 THEN <<>>
    ELSE << rs[1] >>
         \o (IF rs[1].e > i
             THEN Strict1(Lazy(t, a, rs[1].e, MatchAtom(t, a, rs[1].e)), LAMBDA more :
                    [n \in 1..Len(more) |->
                       [e |-> more[n].e, c |-> rs[1].c \o more[n].c]])
             ELSE <<>>)
         \o Lazy(t, a, i, Tail(rs)))

\* Whether p, started at some offset from j down to 0, ends exactly at i.
Ends(t0, p0, j0, i0) ==
  Strict4(t0, p0, j0, i0, LAMBDA t, p, j, i :
    \E d \in 0..j :
      Strict1(Match(t, p, j - d), LAMBDA rs : \E n \in 1..Len(rs) : rs[n].e = i))

MatchAtom(t0, a0, i0) ==
  Strict3(t0, a0, i0, LAMBDA t, a, i :
    CASE a.k = "chr" -> IF i < Len(t) /\ t[i + 1] = a.c THEN Here(i + 1) ELSE <<>>
      [] a.k = "set" -> IF i < Len(t) /\ t[i + 1] \in a.cs THEN Here(i + 1) ELSE <<>>
      [] a.k = "nset" -> IF i < Len(t) /\ t[i + 1] \notin a.cs THEN Here(i + 1) ELSE <<>>
      [] a.k = "any" -> IF i < Len(t) /\ t[i + 1] # "\n" THEN Here(i + 1) ELSE <<>>
      [] a.k = "grp" -> Match(t, a.p, i)
      [] a.k = "cap" ->
           Strict1(Match(t, a.p, i), LAMBDA rs :
             [n \in 1..Len(rs) |->
                [e |-> rs[n].e, c |-> rs[n].c \o << <<a.n, i, rs[n].e>> >>]])
      [] a.k = "la" -> IF Len(Match(t, a.p, i)) > 0 THEN Here(i) ELSE <<>>
      [] a.k = "nla" -> IF Len(Match(t, a.p, i)) = 0 THEN Here(i) ELSE <<>>
      [] a.k = "lb" -> IF Ends(t, a.p, i, i) THEN Here(i) ELSE <<>>
      [] a.k = "nlb" -> IF ~Ends(t, a.p, i, i) THEN Here(i) ELSE <<>>
      [] a.k = "bol" -> IF i = 0 \/ t[i] = "\n" THEN Here(i) ELSE <<>>
      [] a.k = "eol" -> IF i = Len(t) \/ t[i + 1] = "\n" THEN Here(i) ELSE <<>>
      [] a.k = "wb" -> IF IsWordAt(t, i) # IsWordAt(t, i + 1) THEN Here(i) ELSE <<>>
      [] a.k = "star" -> Repeat(t, a.a, i)
      [] a.k = "plus" ->
           IF IsChar(a.a)
           THEN Strict1(Run(t, a.a, i), LAMBDA run :
                  [k \in 1..run |-> [e |-> i + run + 1 - k, c |-> <<>>]])
           ELSE RepeatEach(t, a.a, i - 1, MatchAtom(t, a.a, i))
      [] a.k = "lplus" -> Lazy(t, a.a, i, MatchAtom(t, a.a, i))
      [] a.k = "opt" -> MatchAtom(t, a.a, i) \o Here(i))

\* The engine's answer: the preferred match at offset i, or none.
Matches(t, p, i) == Len(Match(t, p, i)) > 0
First(t, p, i) == Match(t, p, i)[1]

(***************************************************************************)
(* The scopes and the rule repository.  A rule is a record with the fields *)
(* the source gives it: include; match; begin and end; name; captures,     *)
(* beginCaptures, endCaptures (pairs <<capture number, scope names>>); patterns.   *)
(* A scope name is kept as the sequence of its ${...} parts.               *)
(***************************************************************************)
Sco ==
  [ AND |-> "variable.other.class.js variable.interpolation storage.modifier message.error",
    APOSTROPHE |-> "punctuation.definition.tag",
    CASE_ |-> "keyword.control.switch",
    COLON |-> "variable.other.class.js variable.interpolation keyword.operator keyword.control message.error",
    COMMA |-> "string.regexp",
    COMMENT |-> "comment",
    CONSTRUCTOR |-> "entity.other.attribute-name.css constant.language constant.numeric",
    DELIMITER |-> "punctuation.definition.tag",
    DOT |-> "keyword",
    FIELD_NAME |-> "markup.inserted constant.language support.property-value entity.name.filename",
    FIXITY |-> "keyword.control",
    FUN |-> "storage.type",
    FUNCTION_NAME |-> "entity.name.function",
    FUNCTOR |-> "variable.other.class.js variable.interpolation keyword.operator keyword.control message.error",
    INCLUDE |-> "keyword.control.include",
    KEYWORD |-> "keyword",
    LET_ |-> "keyword.control",
    LOCAL_ |-> "keyword.control",
    MODULE_NAME |-> "entity.name.class constant.numeric",
    NUMBER |-> "constant.numeric",
    OPEN |-> "keyword.control.open",
    OPERATOR |-> "variable.other.class.js message.error variable.interpolation string.regexp",
    PATTERN_VARIABLE |-> "string.other.link variable.language variable.parameter",
    PUNCTUATION |-> "string.regexp",
    RAISE |-> "keyword.control.throwcatch",
    REC |-> "variable.other.class.js variable.interpolation keyword.operator keyword.control message.error",
    SIG |-> "variable.other.class.js variable.interpolation keyword.control storage.type message.error",
    SIGNATURE |-> "variable.other.class.js variable.interpolation keyword.control storage.type message.error",
    STRING |-> "string.double",
    STRUCTURE |-> "variable.other.class.js variable.interpolation keyword.control storage.type message.error",
    STRUCT |-> "variable.other.class.js variable.interpolation keyword.control storage.type message.error",
    TYPE_CONSTRUCTOR |-> "support.type",
    TYPE_NAME |-> "entity.name.function",
    TYPE_OPERATOR |-> "markup.inserted string.regexp",
    TYPE_VARIABLE |-> "variable.parameter string.other.link variable.language",
    VAL |-> "storage.type",
    VERTICAL_LINE |-> "keyword.control.switch" ]

appexp ==
  [ patterns |-> <<
        [ include |-> "atexp" ] >> ]

atexp ==
  [ patterns |-> <<
        [ include |-> "comment" ],
        [ include |-> "scon" ],
        [ include |-> "constant" ],
        [ begin |-> ops(Gph.NUMBER_SIGN),
          end |-> alt(<< capture(1, LexVid),
                   lookBehind(set(Cls.digit \cup {"\""})) >>),
          beginCaptures |-> << << 0, << Sco.OPERATOR >> >> >>,
          endCaptures |-> << << 1, << Sco.FIELD_NAME >> >> >>,
          patterns |-> <<
              [ include |-> "constantNumber" ],
              [ include |-> "constantString" ] >> ],
        [ begin |-> words(Kwd.LET_),
          end |-> lookBehind(lastWords(<< Kwd.END >>)),
          captures |-> << << 0, << Sco.LET_ >> >> >>,
          patterns |-> <<
              [ begin |-> lookBehind(lastWords(<< Kwd.LET_ >>)),
                end |-> words(Kwd.IN_),
                endCaptures |-> << << 0, << Sco.LET_ >> >> >>,
                patterns |-> <<
                    [ include |-> "dec" ] >> ],
              [ begin |-> lookBehind(lastWords(<< Kwd.IN_ >>)),
                end |-> words(Kwd.END),
                endCaptures |-> << << 0, << Sco.LET_ >> >> >>,
                patterns |-> <<
                    [ include |-> "exp" ] >> ] >> ],
        [ begin |-> Gph.LEFT_CURLY_BRACKET,
          end |-> Gph.RIGHT_CURLY_BRACKET,
          captures |-> << << 0, << Sco.CONSTRUCTOR >> >> >>,
          patterns |-> <<
              [ include |-> "exp" ] >> ],
        [ begin |-> seq(<< Gph.LEFT_PARENTHESIS,
                     negativeLookAhead(Gph.RIGHT_PARENTHESIS) >>),
          end |-> Gph.RIGHT_PARENTHESIS,
          captures |-> << << 0, << Sco.DELIMITER >> >> >>,
          patterns |-> <<
              [ begin |-> ops(Gph.COLON),
                end |-> lookAhead(Gph.RIGHT_PARENTHESIS),
                beginCaptures |-> << << 0, << Sco.COLON >> >> >>,
                patterns |-> <<
                    [ include |-> "ty" ] >> ],
              [ include |-> "exp" ] >> ] >> ]

atpat ==
  [ patterns |-> <<>> ]

\* The comment rule without itself among its nested patterns.
commentFlat ==
  [ begin |-> seq(<< Gph.LEFT_PARENTHESIS, Gph.ASTERISK >>),
    end |-> seq(<< Gph.ASTERISK, Gph.RIGHT_PARENTHESIS >>),
    name |-> << Sco.COMMENT >>,
    patterns |-> <<>> ]

comment ==
  [ begin |-> seq(<< Gph.LEFT_PARENTHESIS, Gph.ASTERISK >>),
    end |-> seq(<< Gph.ASTERISK, Gph.RIGHT_PARENTHESIS >>),
    name |-> << Sco.COMMENT >>,
    patterns |-> <<
        [ include |-> "comment" ] >> ]

conbind ==
  [ patterns |-> <<
        [ begin |-> lookBehind(alt(<< lastWords(<< Kwd.EXCEPTION >>),
                     lastOps(<< Gph.EQUALS_SIGN, Gph.VERTICAL_LINE >>) >>)),
          end |-> alt(<< capture(1, words(Kwd.OF)), capture(2,
                   ops(Gph.VERTICAL_LINE)), RxTopdecEnd >>),
          endCaptures |-> << << 1, << Sco.CASE_ >> >>, << 2, << Sco.VERTICAL_LINE >> >> >>,
          patterns |-> <<
              [ include |-> "comment" ],
              [ match |-> alt(<< LexOperator, LexVid >>),
                name |-> << Sco.CONSTRUCTOR >> ] >> ],
        [ begin |-> lookBehind(lastWords(<< Kwd.OF >>)),
          end |-> alt(<< ops(Gph.VERTICAL_LINE), RxTopdecEnd >>),
          endCaptures |-> << << 0, << Sco.VERTICAL_LINE >> >> >>,
          patterns |-> <<
              [ include |-> "comment" ],
              [ include |-> "ty" ] >> ] >> ]

condesc ==
  [ patterns |-> <<>> ]

constant ==
  [ patterns |-> <<
        [ include |-> "constantNumber" ],
        [ include |-> "constantString" ],
        [ match |-> words(alt(<< Kwd.FALSE, Kwd.TRUE >>)),
          name |-> << Sco.CONSTRUCTOR >> ],
        [ include |-> "qualifiedConstant" ],
        [ match |-> seq(<< Gph.LEFT_PARENTHESIS, Gph.RIGHT_PARENTHESIS >>),
          name |-> << Sco.CONSTRUCTOR >> ],
        [ match |-> seq(<< Gph.LEFT_SQUARE_BRACKET,
                     Gph.RIGHT_SQUARE_BRACKET >>),
          name |-> << Sco.CONSTRUCTOR >> ],
        [ begin |-> Gph.LEFT_CURLY_BRACKET,
          end |-> Gph.RIGHT_CURLY_BRACKET,
          captures |-> << << 0, << Sco.CONSTRUCTOR >> >> >>,
          patterns |-> <<
              [ include |-> "row" ] >> ],
        [ begin |-> Gph.LEFT_SQUARE_BRACKET,
          end |-> Gph.RIGHT_SQUARE_BRACKET,
          captures |-> << << 0, << Sco.CONSTRUCTOR >> >> >>,
          patterns |-> <<
              [ include |-> "exp" ] >> ] >> ]

constantNumber ==
  [ match |-> seq(<< negativeLookBehind(set(Cls.alpha)),
               seq(<< set(Cls.digit), many(set(Cls.digit)) >>), opt(capture(1,
               seq(<< Gph.FULL_STOP, set(Cls.digit),
               many(set(Cls.digit)) >>))) >>),
    name |-> << Sco.NUMBER >> ]

constantString ==
  [ begin |-> Chr("\""),
    end |-> Chr("\""),
    name |-> << Sco.STRING >>,
    patterns |-> <<
        [ match |-> Str(<<"\\", "\"">>) ] >> ]

datbind ==
  [ patterns |-> <<
        [ begin |-> lookBehind(lastWords(<< Kwd.ABSTYPE, Kwd.AND,
                     Kwd.DATATYPE >>)),
          end |-> ops(Gph.EQUALS_SIGN),
          endCaptures |-> << << 0, << Sco.COLON >> >> >>,
          patterns |-> <<
              [ include |-> "comment" ],
              [ match |-> LexVid,
                name |-> << Sco.TYPE_NAME >> ],
              [ include |-> "ty" ] >> ],
        [ begin |-> lookBehind(lastOps(<< Gph.EQUALS_SIGN >>)),
          end |-> alt(<< words(Kwd.AND), RxTopdecEnd >>),
          endCaptures |-> << << 0, << Sco.AND >> >> >>,
          patterns |-> <<
              [ include |-> "conbind" ] >> ] >> ]

datdesc ==
  [ patterns |-> <<>> ]

dec ==
  [ patterns |-> <<
        [ begin |-> words(Kwd.ABSTYPE),
          end |-> words(Kwd.END),
          captures |-> << << 0, << Sco.KEYWORD >> >> >> ],
        [ include |-> "decDatatype" ],
        [ include |-> "decException" ],
        [ begin |-> words(Kwd.FUN),
          end |-> RxTopdecEnd,
          beginCaptures |-> << << 0, << Sco.FUN >> >> >>,
          patterns |-> <<
              [ include |-> "fvalbind" ] >> ],
        [ begin |-> words(group(alt(<< Kwd.INFIX, Kwd.INFIXR,
                     Kwd.NONFIX >>))),
          end |-> RxTopdecEnd,
          beginCaptures |-> << << 0, << Sco.FIXITY >> >> >>,
          patterns |-> <<
              [ match |-> LexOperator,
                name |-> << Sco.OPERATOR >> ] >> ],
        [ begin |-> words(Kwd.OPEN),
          end |-> RxTopdecEnd,
          beginCaptures |-> << << 0, << Sco.OPEN >> >> >>,
          patterns |-> <<
              [ include |-> "qualifiedModule" ] >> ],
        [ include |-> "decType" ],
        [ include |-> "decVal" ] >> ]

decDatatype ==
  [ patterns |-> <<
        [ begin |-> words(Kwd.DATATYPE),
          end |-> RxTopdecEnd,
          beginCaptures |-> << << 0, << Sco.KEYWORD >> >> >>,
          patterns |-> <<
              [ include |-> "datbind" ] >> ] >> ]

decException ==
  [ patterns |-> <<
        [ begin |-> words(Kwd.EXCEPTION),
          end |-> RxTopdecEnd,
          beginCaptures |-> << << 0, << Sco.KEYWORD >> >> >>,
          patterns |-> <<
              [ include |-> "comment" ],
              [ include |-> "conbind" ] >> ] >> ]

decType ==
  [ patterns |-> <<
        [ begin |-> words(Kwd.TYPE),
          end |-> alt(<< RxTopdecEnd, lookAhead(alt(<< words(Kwd.WHERE),
                   Gph.EQUALS_SIGN >>)) >>),
          beginCaptures |-> << << 0, << Sco.KEYWORD >> >> >>,
          patterns |-> <<
              [ include |-> "typbind" ] >> ] >> ]

decVal ==
  [ begin |-> words(Kwd.VAL),
    end |-> RxTopdecEnd,
    beginCaptures |-> << << 0, << Sco.VAL >> >> >>,
    patterns |-> <<
        [ include |-> "valbind" ] >> ]

exbind ==
  [ patterns |-> <<>> ]

exdesc ==
  [ patterns |-> <<>> ]

exp ==
  [ patterns |-> <<
        [ include |-> "atexp" ],
        [ match |-> alt(<< capture(1, ops(Gph.COMMA)), capture(2,
                     alt(<< Gph.SEMICOLON, LexOperator >>)), capture(3,
                     words(Kwd.AS)) >>),
          captures |-> << << 1, << Sco.COMMA >> >>, << 2, << Sco.OPERATOR >> >>, << 3, << Sco.KEYWORD >> >> >> ],
        [ begin |-> words(Kwd.HANDLE),
          end |-> RxExpEnd,
          beginCaptures |-> << << 0, << Sco.RAISE >> >> >>,
          patterns |-> <<
              [ include |-> "match" ] >> ],
        [ match |-> words(Kwd.RAISE),
          name |-> << Sco.RAISE >> ],
        [ begin |-> words(Kwd.FN),
          end |-> RxExpEnd,
          beginCaptures |-> << << 0, << Sco.KEYWORD >> >> >>,
          patterns |-> <<
              [ include |-> "match" ] >> ],
        [ patterns |-> <<
              [ begin |-> words(Kwd.CASE_),
                end |-> words(Kwd.OF),
                captures |-> << << 0, << Sco.CASE_ >> >> >>,
                patterns |-> <<
                    [ include |-> "exp" ] >> ],
              [ begin |-> lookBehind(lastWords(<< Kwd.OF >>)),
                end |-> RxExpEnd,
                endCaptures |-> << << 0, << Sco.OPERATOR >> >> >>,
                patterns |-> <<
                    [ include |-> "match" ] >> ] >> ],
        [ match |-> words(group(alt(<< Kwd.IF_, Kwd.THEN_,
                     Kwd.ELSE_ >>))),
          name |-> << Sco.KEYWORD >> ],
        [ match |-> words(Kwd.ORELSE),
          name |-> << Sco.OPERATOR >> ],
        [ match |-> words(Kwd.ANDALSO),
          name |-> << Sco.OPERATOR >> ],
        [ match |-> words(group(alt(<< Kwd.WHILE, Kwd.DO >>))),
          name |-> << Sco.KEYWORD >> ] >> ]

funbind ==
  [ patterns |-> <<
        [ begin |-> lookBehind(lastWords(<< Kwd.FUNCTOR, Kwd.AND >>)),
          end |-> ops(alt(<< capture(1, Gph.COLON), capture(2,
                   Gph.EQUALS_SIGN) >>)),
          endCaptures |-> << << 1, << Sco.COLON >> >>, << 2, << Sco.COLON >> >> >>,
          patterns |-> <<
              [ include |-> "comment" ],
              [ include |-> "qualifiedModule" ],
              [ begin |-> Gph.LEFT_PARENTHESIS,
                end |-> Gph.RIGHT_PARENTHESIS,
                captures |-> << << 0, << Sco.DELIMITER >> >> >>,
                patterns |-> <<
                    [ include |-> "spec" ],
                    [ begin |-> LexVid,
                      end |-> ops(Gph.COLON),
                      beginCaptures |-> << << 0, << Sco.MODULE_NAME >> >> >>,
                      endCaptures |-> << << 0, << Sco.COLON >> >> >> ],
                    [ begin |-> lookBehind(lastOps(<< Gph.COLON >>)),
                      end |-> lookAhead(Gph.RIGHT_PARENTHESIS),
                      patterns |-> <<
                          [ include |-> "sigexp" ] >> ] >> ] >> ],
        [ begin |-> lookBehind(lastOps(<< Gph.COLON >>)),
          end |-> ops(Gph.EQUALS_SIGN),
          endCaptures |-> << << 0, << Sco.COLON >> >> >>,
          patterns |-> <<
              [ include |-> "sigexp" ] >> ],
        [ begin |-> lookBehind(lastOps(<< Gph.EQUALS_SIGN >>)),
          end |-> RxTopdecEnd,
          endCaptures |-> << << 0, << Sco.KEYWORD >> >> >>,
          patterns |-> <<
              [ include |-> "strexp" ] >> ],
        [ begin |-> lookBehind(lastWords(<< Kwd.AND >>)),
          end |-> RxTopdecEnd,
          endCaptures |-> << << 0, << Sco.KEYWORD >> >> >>,
          patterns |-> <<
              [ include |-> "funbind" ] >> ] >> ]

fundec ==
  [ patterns |-> <<
        [ include |-> "comment" ],
        [ begin |-> words(Kwd.FUNCTOR),
          end |-> RxTopdecEnd,
          beginCaptures |-> << << 0, << Sco.FUNCTOR >> >> >>,
          patterns |-> <<
              [ include |-> "funbind" ] >> ] >> ]

\* fvalbind with a head that only "=" ends.
fvalbindEqualsOnly ==
  [ patterns |-> <<
        [ begin |-> lookBehind(alt(<< lastOps(<< Gph.VERTICAL_LINE >>),
                     lastWords(<< Kwd.AND, Kwd.FUN >>) >>)),
          end |-> ops(capture(2, Gph.EQUALS_SIGN)),
          endCaptures |-> << << 1, << Sco.COLON >> >>, << 2, << Sco.COLON >> >> >>,
          patterns |-> <<
              [ include |-> "comment" ],
              [ begin |-> lookBehind(alt(<< lastOps(<< Gph.VERTICAL_LINE >>),
                           lastWords(<< Kwd.AND, Kwd.FUN >>) >>)),
                end |-> alt(<< LexOperator, LexVid,
                         lookAhead(complement(Cls.space \cup Cls.alpha)) >>),
                endCaptures |-> << << 0, << Sco.FUNCTION_NAME >> >> >> ],
              [ include |-> "pat" ] >> ],
        [ begin |-> lookBehind(lastOps(<< Gph.COLON >>)),
          end |-> alt(<< ops(Gph.EQUALS_SIGN), RxTopdecEnd >>),
          endCaptures |-> << << 0, << Sco.COLON >> >> >>,
          patterns |-> <<
              [ include |-> "ty" ] >> ],
        [ begin |-> lookBehind(lastOps(<< Gph.EQUALS_SIGN >>)),
          end |-> alt(<< capture(1, ops(Gph.VERTICAL_LINE)), capture(2,
                   words(Kwd.AND)), RxTopdecEnd >>),
          endCaptures |-> << << 1, << Sco.VERTICAL_LINE >> >>, << 2, << Sco.AND >> >> >>,
          patterns |-> <<
              [ include |-> "exp" ] >> ] >> ]

fvalbind ==
  [ patterns |-> <<
        [ begin |-> lookBehind(alt(<< lastOps(<< Gph.VERTICAL_LINE >>),
                     lastWords(<< Kwd.AND, Kwd.FUN >>) >>)),
          end |-> ops(alt(<< capture(1, Gph.COLON), capture(2,
                   Gph.EQUALS_SIGN) >>)),
          endCaptures |-> << << 1, << Sco.COLON >> >>, << 2, << Sco.COLON >> >> >>,
          patterns |-> <<
              [ include |-> "comment" ],
              [ begin |-> lookBehind(alt(<< lastOps(<< Gph.VERTICAL_LINE >>),
                           lastWords(<< Kwd.AND, Kwd.FUN >>) >>)),
                end |-> alt(<< LexOperator, LexVid,
                         lookAhead(complement(Cls.space \cup Cls.alpha)) >>),
                endCaptures |-> << << 0, << Sco.FUNCTION_NAME >> >> >> ],
              [ include |-> "pat" ] >> ],
        [ begin |-> lookBehind(lastOps(<< Gph.COLON >>)),
          end |-> alt(<< ops(Gph.EQUALS_SIGN), RxTopdecEnd >>),
          endCaptures |-> << << 0, << Sco.COLON >> >> >>,
          patterns |-> <<
              [ include |-> "ty" ] >> ],
        [ begin |-> lookBehind(lastOps(<< Gph.EQUALS_SIGN >>)),
          end |-> alt(<< capture(1, ops(Gph.VERTICAL_LINE)), capture(2,
                   words(Kwd.AND)), RxTopdecEnd >>),
          endCaptures |-> << << 1, << Sco.VERTICAL_LINE >> >>, << 2, << Sco.AND >> >> >>,
          patterns |-> <<
              [ include |-> "exp" ] >> ] >> ]

infexp ==
  [ patterns |-> <<
        [ include |-> "appexp" ] >> ]

match ==
  [ patterns |-> <<
        [ begin |-> lookBehind(alt(<< lastWords(<< Kwd.FN, Kwd.HANDLE,
                     Kwd.OF >>), lastOps(<< Gph.VERTICAL_LINE >>) >>)),
          end |-> ops(seq(<< Gph.EQUALS_SIGN, Gph.GREATER_THAN_SIGN >>)),
          endCaptures |-> << << 0, << Sco.CASE_ >> >> >>,
          patterns |-> <<
              [ include |-> "comment" ],
              [ include |-> "pat" ] >> ],
        [ begin |-> lookBehind(lastOps(<< seq(<< Gph.EQUALS_SIGN,
                     Gph.GREATER_THAN_SIGN >>) >>)),
          end |-> alt(<< ops(Gph.VERTICAL_LINE), RxExpEnd >>),
          endCaptures |-> << << 0, << Sco.VERTICAL_LINE >> >> >>,
          patterns |-> <<
              [ include |-> "exp" ] >> ] >> ]

pat ==
  [ patterns |-> <<
        [ begin |-> Gph.LEFT_CURLY_BRACKET,
          end |-> Gph.RIGHT_CURLY_BRACKET,
          captures |-> << << 0, << Sco.CONSTRUCTOR >> >> >>,
          patterns |-> <<
              [ include |-> "patrow" ] >> ],
        [ begin |-> Gph.LEFT_SQUARE_BRACKET,
          end |-> Gph.RIGHT_SQUARE_BRACKET,
          captures |-> << << 0, << Sco.CONSTRUCTOR >> >> >>,
          patterns |-> <<
              [ include |-> "pat" ] >> ],
        [ include |-> "constant" ],
        [ match |-> alt(<< capture(1, ops(Gph.COMMA)), capture(2,
                     LexOperator), capture(3, words(Kwd.AS)) >>),
          captures |-> << << 1, << Sco.COMMA >> >>, << 2, << Sco.OPERATOR >> >>, << 3, << Sco.KEYWORD >> >> >> ],
        [ match |-> alt(<< capture(1, ops(Gph.LOW_LINE)), capture(2,
                     seq(<< lookAhead(set(Cls.lower)), LexVid >>)) >>),
          captures |-> << << 1, << Sco.COMMENT, Sco.DELIMITER >> >>, << 2, << Sco.PATTERN_VARIABLE >> >> >> ],
        [ begin |-> Gph.LEFT_PARENTHESIS,
          end |-> Gph.RIGHT_PARENTHESIS,
          captures |-> << << 0, << Sco.DELIMITER >> >> >>,
          patterns |-> <<
              [ include |-> "comment" ],
              [ begin |-> ops(Gph.COLON),
                end |-> lookAhead(Gph.RIGHT_PARENTHESIS),
                beginCaptures |-> << << 0, << Sco.COLON >> >> >>,
                patterns |-> <<
                    [ include |-> "ty" ] >> ],
              [ include |-> "pat" ] >> ] >> ]

patrow ==
  [ patterns |-> <<
        [ begin |-> lookBehind(alt(<< Gph.LEFT_CURLY_BRACKET, Gph.COMMA >>)),
          end |-> alt(<< ops(alt(<< capture(1, Gph.COMMA), capture(2,
                   Gph.COLON), capture(3, Gph.EQUALS_SIGN) >>)),
                   lookAhead(Gph.RIGHT_CURLY_BRACKET) >>),
          endCaptures |-> << << 1, << Sco.COMMA >> >>, << 2, << Sco.COLON >> >>, << 3, << Sco.COLON >> >> >>,
          patterns |-> <<
              [ match |-> LexVid,
                name |-> << Sco.FIELD_NAME >> ],
              [ match |-> ops(Gph.ELLIPSIS),
                name |-> << Sco.CONSTRUCTOR >> ] >> ],
        [ begin |-> lookBehind(lastOps(<< Gph.COLON >>)),
          end |-> alt(<< Gph.COMMA, lookAhead(Gph.RIGHT_CURLY_BRACKET) >>),
          endCaptures |-> << << 0, << Sco.PUNCTUATION >> >> >>,
          patterns |-> <<
              [ include |-> "ty" ] >> ],
        [ begin |-> lookBehind(lastOps(<< Gph.EQUALS_SIGN >>)),
          end |-> alt(<< Gph.COMMA, lookAhead(Gph.RIGHT_CURLY_BRACKET) >>),
          endCaptures |-> << << 0, << Sco.COMMA >> >> >>,
          patterns |-> <<
              [ include |-> "pat" ] >> ] >> ]

qualifiedConstant ==
  [ patterns |-> <<
        [ include |-> "qualifiedPrefix" ],
        [ match |-> seq(<< lookAhead(set(Cls.upper)), LexVid >>),
          name |-> << Sco.CONSTRUCTOR >> ] >> ]

qualifiedModule ==
  [ patterns |-> <<
        [ include |-> "qualifiedPrefix" ],
        [ match |-> seq(<< lookAhead(set(Cls.upper)), LexVid >>),
          name |-> << Sco.MODULE_NAME >> ] >> ]

qualifiedPrefix ==
  [ begin |-> seq(<< lookAhead(set(Cls.upper)), LexVid,
               lookAhead(seq(<< many(set(Cls.space)), Gph.FULL_STOP >>)) >>),
    end |-> Gph.FULL_STOP,
    beginCaptures |-> << << 0, << Sco.MODULE_NAME >> >> >>,
    endCaptures |-> << << 0, << Sco.DOT >> >> >> ]

qualifiedType ==
  [ patterns |-> <<
        [ include |-> "qualifiedPrefix" ],
        [ match |-> LexVid,
          name |-> << Sco.TYPE_CONSTRUCTOR >> ] >> ]

row ==
  [ patterns |-> <<
        [ begin |-> lookBehind(alt(<< Gph.LEFT_CURLY_BRACKET, Gph.COMMA >>)),
          end |-> alt(<< ops(alt(<< capture(1, Gph.COMMA), capture(2,
                   Gph.COLON), capture(3, Gph.EQUALS_SIGN) >>)),
                   lookAhead(Gph.RIGHT_CURLY_BRACKET) >>),
          endCaptures |-> << << 1, << Sco.COMMA >> >>, << 2, << Sco.COLON >> >>, << 3, << Sco.COLON >> >> >>,
          patterns |-> <<
              [ match |-> LexVid,
                name |-> << Sco.FIELD_NAME >> ],
              [ match |-> ops(Gph.ELLIPSIS),
                name |-> << Sco.CONSTRUCTOR >> ] >> ],
        [ begin |-> lookBehind(lastOps(<< Gph.COLON >>)),
          end |-> alt(<< Gph.COMMA, lookAhead(Gph.RIGHT_CURLY_BRACKET) >>),
          endCaptures |-> << << 0, << Sco.PUNCTUATION >> >> >>,
          patterns |-> <<
              [ include |-> "ty" ] >> ],
        [ begin |-> lookBehind(lastOps(<< Gph.EQUALS_SIGN >>)),
          end |-> alt(<< Gph.COMMA, lookAhead(Gph.RIGHT_CURLY_BRACKET) >>),
          endCaptures |-> << << 0, << Sco.COMMA >> >> >>,
          patterns |-> <<
              [ include |-> "exp" ] >> ] >> ]

scon ==
  [ patterns |-> <<>> ]

sigbind ==
  [ patterns |-> <<
        [ begin |-> lookBehind(lastWords(<< Kwd.SIGNATURE, Kwd.AND >>)),
          end |-> ops(Gph.EQUALS_SIGN),
          endCaptures |-> << << 0, << Sco.COLON >> >> >>,
          patterns |-> <<
              [ include |-> "comment" ],
              [ include |-> "qualifiedModule" ] >> ],
        [ begin |-> lookBehind(lastOps(<< Gph.EQUALS_SIGN >>)),
          end |-> alt(<< words(Kwd.AND), RxTopdecEnd >>),
          endCaptures |-> << << 0, << Sco.AND >> >> >>,
          patterns |-> <<
              [ include |-> "sigexp" ] >> ],
        [ begin |-> lookBehind(lastWords(<< Kwd.AND >>)),
          end |-> alt(<< words(Kwd.AND), RxTopdecEnd >>),
          endCaptures |-> << << 0, << Sco.AND >> >> >>,
          patterns |-> <<
              [ include |-> "sigbind" ] >> ] >> ]

sigdec ==
  [ patterns |-> <<
        [ include |-> "comment" ],
        [ begin |-> words(Kwd.SIGNATURE),
          end |-> RxTopdecEnd,
          beginCaptures |-> << << 0, << Sco.KEYWORD >> >> >>,
          patterns |-> <<
              [ include |-> "sigbind" ] >> ] >> ]

sigexp ==
  [ patterns |-> <<
        [ include |-> "comment" ],
        [ begin |-> words(Kwd.SIG),
          end |-> words(Kwd.END),
          patterns |-> <<
              [ include |-> "spec" ] >>,
          captures |-> << << 0, << Sco.SIG >> >> >> ],
        [ begin |-> alt(<< lookBehind(lastWords(<< Kwd.WHERE >>)),
                     words(Kwd.WHERE) >>),
          end |-> alt(<< capture(1, words(Kwd.WHERE)),
                   lookAhead(alt(<< ops(Gph.EQUALS_SIGN),
                   RxTopdecEndSansType >>)) >>),
          beginCaptures |-> << << 0, << Sco.KEYWORD >> >> >>,
          endCaptures |-> << << 1, << Sco.KEYWORD >> >> >>,
          patterns |-> <<
              [ include |-> "decType" ] >> ],
        [ include |-> "qualifiedModule" ] >> ]

spec ==
  [ patterns |-> <<
        [ include |-> "comment" ],
        [ include |-> "decVal" ],
        [ include |-> "decType" ],
        [ include |-> "decDatatype" ],
        [ include |-> "decException" ],
        [ include |-> "strdecStructure" ],
        [ begin |-> words(Kwd.INCLUDE),
          end |-> RxTopdecEnd,
          beginCaptures |-> << << 0, << Sco.INCLUDE >> >> >>,
          patterns |-> <<
              [ include |-> "sigexp" ] >> ] >> ]

strbind ==
  [ patterns |-> <<
        [ begin |-> lookBehind(lastWords(<< Kwd.STRUCTURE, Kwd.AND >>)),
          end |-> ops(alt(<< capture(1, seq(<< Gph.COLON,
                   opt(Gph.GREATER_THAN_SIGN) >>)), capture(2,
                   Gph.EQUALS_SIGN) >>)),
          endCaptures |-> << << 1, << Sco.COLON >> >>, << 2, << Sco.COLON >> >> >>,
          patterns |-> <<
              [ include |-> "comment" ],
              [ include |-> "qualifiedModule" ] >> ],
        [ begin |-> lookBehind(lastOps(<< Gph.COLON, seq(<< Gph.COLON,
                     Gph.GREATER_THAN_SIGN >>) >>)),
          end |-> alt(<< ops(Gph.EQUALS_SIGN), RxTopdecEnd >>),
          endCaptures |-> << << 0, << Sco.COLON >> >> >>,
          patterns |-> <<
              [ include |-> "sigexp" ] >> ],
        [ begin |-> lookBehind(lastOps(<< Gph.EQUALS_SIGN >>)),
          end |-> alt(<< words(Kwd.AND), RxTopdecEnd >>),
          endCaptures |-> << << 0, << Sco.AND >> >> >>,
          patterns |-> <<
              [ include |-> "strexp" ] >> ] >> ]

strdec ==
  [ patterns |-> <<
        [ include |-> "comment" ],
        [ include |-> "dec" ],
        [ include |-> "strdecStructure" ],
        [ begin |-> words(Kwd.LOCAL_),
          end |-> lookBehind(lastWords(<< Kwd.END >>)),
          beginCaptures |-> << << 0, << Sco.LOCAL_ >> >> >>,
          patterns |-> <<
              [ begin |-> lookBehind(lastWords(<< Kwd.LOCAL_ >>)),
                end |-> words(Kwd.IN_),
                endCaptures |-> << << 0, << Sco.LOCAL_ >> >> >>,
                patterns |-> <<
                    [ include |-> "dec" ],
                    [ include |-> "strdec" ] >> ],
              [ begin |-> lookBehind(lastWords(<< Kwd.IN_ >>)),
                end |-> words(Kwd.END),
                endCaptures |-> << << 0, << Sco.LOCAL_ >> >> >>,
                patterns |-> <<
                    [ include |-> "dec" ],
                    [ include |-> "strdec" ] >> ] >> ] >> ]

strdecStructure ==
  [ patterns |-> <<
        [ begin |-> words(Kwd.STRUCTURE),
          end |-> RxTopdecEnd,
          beginCaptures |-> << << 0, << Sco.STRUCTURE >> >> >>,
          patterns |-> <<
              [ include |-> "strbind" ] >> ] >> ]

strdesc ==
  [ patterns |-> <<>> ]

strexp ==
  [ patterns |-> <<
        [ include |-> "comment" ],
        [ begin |-> words(Kwd.STRUCT),
          end |-> words(Kwd.END),
          patterns |-> <<
              [ include |-> "strdec" ] >>,
          beginCaptures |-> << << 0, << Sco.STRUCT >> >> >>,
          endCaptures |-> << << 0, << Sco.STRUCT >> >> >> ],
        [ include |-> "qualifiedModule" ] >> ]

topdec ==
  [ patterns |-> <<
        [ include |-> "strdec" ],
        [ include |-> "sigdec" ],
        [ include |-> "fundec" ] >> ]

ty ==
  [ patterns |-> <<
        [ include |-> "comment" ],
        [ match |-> LexTyvar,
          captures |-> << << 1, << Sco.APOSTROPHE >> >>, << 2, << Sco.TYPE_VARIABLE >> >> >> ],
        [ begin |-> Gph.LEFT_CURLY_BRACKET,
          end |-> Gph.RIGHT_CURLY_BRACKET,
          captures |-> << << 0, << Sco.CONSTRUCTOR >> >> >>,
          patterns |-> <<
              [ include |-> "row" ] >> ],
        [ match |-> ops(alt(<< seq(<< Gph.HYPHEN_MINUS,
                     Gph.GREATER_THAN_SIGN >>), Gph.ASTERISK >>)),
          name |-> << Sco.TYPE_OPERATOR >> ],
        [ begin |-> Gph.LEFT_PARENTHESIS,
          end |-> Gph.RIGHT_PARENTHESIS,
          captures |-> << << 0, << Sco.DELIMITER >> >> >>,
          patterns |-> <<
              [ include |-> "ty" ],
              [ match |-> Gph.COMMA,
                name |-> << Sco.COMMA >> ] >> ],
        [ patterns |-> <<
              [ include |-> "qualifiedType" ] >> ] >> ]

typbind ==
  [ patterns |-> <<
        [ begin |-> lookBehind(lastWords(<< Kwd.TYPE >>)),
          end |-> alt(<< RxTopdecEnd, capture(1, ops(Gph.EQUALS_SIGN)) >>),
          endCaptures |-> << << 0, << Sco.COLON >> >> >>,
          patterns |-> <<
              [ include |-> "comment" ],
              [ match |-> LexVid,
                name |-> << Sco.TYPE_NAME >> ],
              [ include |-> "ty" ] >> ],
        [ begin |-> lookBehind(lastOps(<< Gph.EQUALS_SIGN >>)),
          end |-> alt(<< RxTopdecEnd, lookAhead(alt(<< words(Kwd.WHERE),
                   Gph.EQUALS_SIGN >>)) >>),
          patterns |-> <<
              [ include |-> "comment" ],
              [ include |-> "ty" ] >> ] >> ]

typdesc ==
  [ patterns |-> <<>> ]

valbind ==
  [ patterns |-> <<
        [ begin |-> lookBehind(alt(<< lastOps(<< Gph.VERTICAL_LINE >>),
                     lastWords(<< Kwd.AND, Kwd.VAL >>) >>)),
          end |-> alt(<< ops(alt(<< capture(1, Gph.COLON), capture(2,
                   Gph.EQUALS_SIGN) >>)), RxTopdecEnd >>),
          endCaptures |-> << << 1, << Sco.COLON >> >>, << 2, << Sco.COLON >> >> >>,
          patterns |-> <<
              [ begin |-> lookBehind(alt(<< lastOps(<< Gph.VERTICAL_LINE >>),
                           lastWords(<< Kwd.AND, Kwd.VAL >>) >>)),
                end |-> alt(<< capture(1, words(Kwd.REC)), capture(2,
                         seq(<< lookAhead(set(Cls.lower)), LexVid >>)),
                         lookAhead(complement(Cls.space \cup Cls.alpha)) >>),
                endCaptures |-> << << 1, << Sco.REC >> >>, << 2, << Sco.FUNCTION_NAME >> >> >>,
                patterns |-> <<
                    [ include |-> "pat" ] >> ],
              [ begin |-> lookBehind(lastWords(<< Kwd.REC >>)),
                end |-> alt(<< capture(1, seq(<< lookAhead(set(Cls.lower)),
                         LexVid >>)),
                         lookAhead(complement(Cls.space \cup Cls.alpha)) >>),
                endCaptures |-> << << 0, << Sco.FUNCTION_NAME >> >> >> ],
              [ include |-> "pat" ] >> ],
        [ begin |-> lookBehind(lastOps(<< Gph.COLON >>)),
          end |-> alt(<< ops(Gph.EQUALS_SIGN), RxTopdecEnd >>),
          endCaptures |-> << << 0, << Sco.COLON >> >> >>,
          patterns |-> <<
              [ include |-> "ty" ] >> ],
        [ begin |-> lookBehind(lastOps(<< Gph.EQUALS_SIGN >>)),
          end |-> alt(<< capture(1, ops(Gph.VERTICAL_LINE)), capture(2,
                   words(Kwd.AND)), RxTopdecEnd >>),
          endCaptures |-> << << 1, << Sco.VERTICAL_LINE >> >>, << 2, << Sco.AND >> >> >>,
          patterns |-> <<
              [ include |-> "exp" ] >> ] >> ]

valdesc ==
  [ patterns |-> <<>> ]


\* The repository maps each rule name to its rule (the shorthand properties of
\* the source: the key is the name of the constant).
repository ==
  [ appexp |-> appexp,
    atexp |-> atexp,
    atpat |-> atpat,
    comment |-> comment,
    conbind |-> conbind,
    condesc |-> condesc,
    constant |-> constant,
    constantNumber |-> constantNumber,
    constantString |-> constantString,
    datbind |-> datbind,
    datdesc |-> datdesc,
    dec |-> dec,
    decDatatype |-> decDatatype,
    decException |-> decException,
    decType |-> decType,
    decVal |-> decVal,
    exbind |-> exbind,
    exdesc |-> exdesc,
    exp |-> exp,
    funbind |-> funbind,
    fundec |-> fundec,
    fvalbind |-> fvalbind,
    infexp |-> infexp,
    match |-> match,
    pat |-> pat,
    patrow |-> patrow,
    qualifiedConstant |-> qualifiedConstant,
    qualifiedModule |-> qualifiedModule,
    qualifiedPrefix |-> qualifiedPrefix,
    qualifiedType |-> qualifiedType,
    row |-> row,
    scon |-> scon,
    sigbind |-> sigbind,
    sigdec |-> sigdec,
    sigexp |-> sigexp,
    spec |-> spec,
    strbind |-> strbind,
    strdec |-> strdec,
    strdecStructure |-> strdecStructure,
    strdesc |-> strdesc,
    strexp |-> strexp,
    topdec |-> topdec,
    ty |-> ty,
    typbind |-> typbind,
    typdesc |-> typdesc,
    valbind |-> valbind,
    valdesc |-> valdesc ]

\* The grammar with a root pattern list that includes a name the repository
\* does not have.
grammarUnresolved ==
  [ name |-> "Standard ML",
    scopeName |-> "source.sml",
    fileTypes |-> << ".fun", ".sig", ".sml", ".cm", ".lex", ".grm" >>,
    patterns |-> << [ include |-> "program" ] >>,
    repository |-> repository ]

grammar ==
  [ name |-> "Standard ML",
    scopeName |-> "source.sml",
    fileTypes |-> << ".fun", ".sig", ".sml", ".cm", ".lex", ".grm" >>,
    patterns |-> << [ include |-> "topdec" ] >>,
    repository |-> repository ]

(***************************************************************************)
(* The region tokenizer: a stack automaton over (text, offset, stack).     *)
(* A frame is [rule |-> path of its region rule, start |-> the offset its  *)
(* begin-Pattern matched at]; a path is a repository name followed by the  *)
(* positions taken through the nested patterns lists.  A token is          *)
(* [s, e, scopes, frames]: a half-open range, the scope names that apply   *)
(* (outermost first) and the frames open when it was emitted.  runs keeps  *)
(* the finished runs, each as [text, tokens], in the order they finished.  *)
(***************************************************************************)
VARIABLES text, offset, stack, tokens, runs

tokVars == << text, offset, stack, tokens, runs >>

(***************************************************************************)
(* The state of the diagnostic collaborator (extension.ts): Transducer's   *)
(* lines and pendingLine; the once-listeners of "sml/lines", by the        *)
(* execute call that registered them; the execute calls whose write        *)
(* callback has not run yet; the number of commands written to the         *)
(* subprocess; the characters in its stdout pipe; the outputs it has       *)
(* produced, one per command answered; the number of batches emitted; the  *)
(* batch last handed to a listener; the entries last set in the            *)
(* DiagnosticCollection; and, per execute call, the batch that resolved it *)
(* (0 while it is pending).                                                *)
(***************************************************************************)
VARIABLES lines, pendingLine, listeners, callbacks, written, stdout, outputs,
          batches, delivered, diagnostics, resolved

execVars == << lines, pendingLine, listeners, callbacks, written, stdout, outputs,
               batches, delivered, diagnostics, resolved >>

(***************************************************************************)
(* The subprocess and the calls of SML.reload: process is this.process, 0  *)
(* while it is undefined and else the number of a child; children are the  *)
(* subprocesses spawned so far, each with whether it is alive, whether its *)
(* stdin is "open" or "ended" and whether it has written its first prompt; *)
(* reloads are the calls of reload, each with what it awaits (pc) and the  *)
(* child that the awaited event belongs to; json is whether this.json is a *)
(* loaded configuration rather than null.                                  *)
(***************************************************************************)
VARIABLES process, children, reloads, json

procVars == << process, children, reloads, json >>

smlVars == << execVars, procVars >>

IsInclude(r) == "include" \in DOMAIN r
IsMatch(r) == "match" \in DOMAIN r
IsRegion(r) == "begin" \in DOMAIN r
IsLeaf(r) == IsMatch(r) \/ IsRegion(r)
Nested(r) == IF "patterns" \in DOMAIN r THEN r.patterns ELSE <<>>

RECURSIVE Descend(_, _, _)
Descend(r0, path0, n0) ==
  Strict3(r0, path0, n0, LAMBDA r, path, n :
    IF n > Len(path) THEN r ELSE Descend(r.patterns[path[n]], path, n + 1))

\* The operators below take the grammar g the tokenizer was loaded with.
\* The rule a path names; the empty path names the grammar's root.
RuleAt(g, path0) ==
  Strict1(path0, LAMBDA path :
    IF Len(path) = 0 THEN g ELSE Descend(g.repository[path[1]], path, 2))

\* Step 1: the ordered candidate rules of a patterns list, includes resolved
\* through the repository and rules that only group others opened up.
RECURSIVE Expand(_, _, _, _)
Expand(g, ps0, prefix0, n0) ==
  Strict3(ps0, prefix0, n0, LAMBDA ps, prefix, n :
    IF n > Len(ps) THEN <<>>
    ELSE Strict1(ps[n], LAMBDA p :
           (IF IsInclude(p)
            THEN IF IsLeaf(g.repository[p.include])
                 THEN << << p.include >> >>
                 ELSE Expand(g, Nested(g.repository[p.include]), << p.include >>, 1)
            ELSE IF IsLeaf(p) THEN << prefix \o << n >> >>
            ELSE Expand(g, Nested(p), prefix \o << n >>, 1))
           \o Expand(g, ps, prefix, n + 1)))

Candidates(g, path) == Expand(g, Nested(RuleAt(g, path)), path, 1)

TopPath(stk) == IF Len(stk) = 0 THEN <<>> ELSE stk[Len(stk)].rule

Opening(r) == IF IsMatch(r) THEN r.match ELSE r.begin

\* The position in cands, from the lo-th to the hi-th, of the first candidate
\* that matches at offset i, or 0.
RECURSIVE FirstHit(_, _, _, _, _, _)
FirstHit(g, t0, cands0, i0, lo0, hi0) ==
  Strict5(t0, cands0, i0, lo0, hi0, LAMBDA t, cands, i, lo, hi :
    IF lo > hi THEN 0
    ELSE IF lo = hi
    THEN IF Matches(t, Strict1(RuleAt(g, cands[lo]), LAMBDA r : Opening(r)), i)
         THEN lo ELSE 0
    ELSE Strict1(FirstHit(g, t, cands, i, lo, (lo + hi) \div 2), LAMBDA hit :
           IF hit > 0 THEN hit
           ELSE FirstHit(g, t, cands, i, (lo + hi) \div 2 + 1, hi)))

\* Step 2: which rule wins at the current offset.  Every match tried here
\* starts at the offset, so the order of the list decides; no rule of this
\* grammar asks for its end-check to come last, so it comes first.
Winner(g, t0, stk0, i0) ==
  Strict3(t0, stk0, i0, LAMBDA t, stk, i :
    IF Len(stk) > 0 /\ Matches(t, RuleAt(g, TopPath(stk)).end, i)
    THEN [kind |-> "end", rule |-> TopPath(stk)]
    ELSE Strict1(Candidates(g, TopPath(stk)), LAMBDA cands :
           Strict1(FirstHit(g, t, cands, i, 1, Len(cands)), LAMBDA hit :
             IF hit = 0 THEN [kind |-> "none", rule |-> <<>>]
             ELSE IF IsMatch(RuleAt(g, cands[hit]))
             THEN [kind |-> "match", rule |-> cands[hit]]
             ELSE [kind |-> "begin", rule |-> cands[hit]])))

RECURSIVE FrameScopes(_, _)
FrameScopes(g, stk0) ==
  Strict1(stk0, LAMBDA stk :
    IF Len(stk) = 0 THEN << g.scopeName >>
    ELSE Strict1(RuleAt(g, stk[Len(stk)].rule), LAMBDA r :
           FrameScopes(g, SubSeq(stk, 1, Len(stk) - 1))
           \o (IF "name" \in DOMAIN r THEN r.name ELSE <<>>)))

\* The CaptureMap that applies to a rule's match, begin or end, if any.
CaptureMap(r, part) ==
  IF part = "begin" /\ "beginCaptures" \in DOMAIN r THEN r.beginCaptures
  ELSE IF part = "end" /\ "endCaptures" \in DOMAIN r THEN r.endCaptures
  ELSE IF "captures" \in DOMAIN r THEN r.captures
  ELSE <<>>

HasCaptureMap(r, part) ==
  \/ part = "begin" /\ "beginCaptures" \in DOMAIN r
  \/ part = "end" /\ "endCaptures" \in DOMAIN r
  \/ "captures" \in DOMAIN r

Declared(map, n) == \E k \in 1..Len(map) : map[k][1] = n

ScopesOf(map, n) == map[CHOOSE k \in 1..Len(map) : map[k][1] = n][2]

\* Steps 3-5: the tokens of one match m = [e, c] that began at offset i: one
\* token per declared capture group that took part (group 0 is the whole
\* match), or one token for the whole span; an empty span emits nothing.
RECURSIVE CaptureTokens(_, _, _, _, _)
CaptureTokens(groups0, n0, map0, base0, stk0) ==
  Strict5(groups0, n0, map0, base0, stk0, LAMBDA groups, n, map, base, stk :
    IF n > Len(groups) THEN <<>>
    ELSE (IF Declared(map, groups[n][1]) /\ groups[n][3] > groups[n][2]
          THEN << [s |-> groups[n][2], e |-> groups[n][3],
                   scopes |-> base \o ScopesOf(map, groups[n][1]),
                   frames |-> stk] >>
          ELSE <<>>)
         \o CaptureTokens(groups, n + 1, map, base, stk))

Emit(g, r0, part, i0, m0, stk0) ==
  Strict4(r0, i0, m0, stk0, LAMBDA r, i, m, stk :
    Strict1(FrameScopes(g, stk)
              \o (IF IsMatch(r) /\ "name" \in DOMAIN r THEN r.name ELSE <<>>),
            LAMBDA base :
      IF HasCaptureMap(r, part)
      THEN CaptureTokens(<< <<0, i, m.e>> >> \o m.c, 1, CaptureMap(r, part), base, stk)
      ELSE IF m.e > i
      THEN << [s |-> i, e |-> m.e, scopes |-> base, frames |-> stk] >>
      ELSE <<>>))

\* What one step does at offset i of t under the frames stk: the kind of
\* the winner, the frames afterwards, the tokens emitted and the new offset.
Outcome(g, t0, stk0, i0) ==
  Strict3(t0, stk0, i0, LAMBDA t, stk, i :
    Strict1(Winner(g, t, stk, i), LAMBDA w :
      Strict1(RuleAt(g, w.rule), LAMBDA r :
        CASE w.kind = "match" ->
               Strict1(First(t, r.match, i), LAMBDA m :
                 [kind |-> "match", stack |-> stk, e |-> m.e,
                  emit |-> Emit(g, r, "match", i, m, stk)])
          [] w.kind = "begin" ->
               Strict2(First(t, r.begin, i),
                       Append(stk, [rule |-> w.rule, start |-> i]),
                       LAMBDA m, pushed :
                 [kind |-> "begin", stack |-> pushed, e |-> m.e,
                  emit |-> Emit(g, r, "begin", i, m, pushed)])
          [] w.kind = "end" ->
               Strict1(First(t, r.end, i), LAMBDA m :
                 [kind |-> "end", stack |-> SubSeq(stk, 1, Len(stk) - 1), e |-> m.e,
                  emit |-> Emit(g, r, "end", i, m, stk)])
          [] OTHER ->
               [kind |-> "none", stack |-> stk, e |-> i + 1,
                emit |-> << [s |-> i, e |-> i + 1, scopes |-> FrameScopes(g, stk),
                             frames |-> stk] >>])))

Running == offset < Len(text)

\* Step 3: a MatchRule wins.
MatchWins(g) ==
  /\ Running
  /\ \E o \in { Outcome(g, text, stack, offset) } :
       /\ o.kind = "match"
       /\ tokens' = tokens \o o.emit
       /\ offset' = o.e
  /\ UNCHANGED << text, stack >>
  /\ UNCHANGED << runs, smlVars >>

\* Step 4: a RegionRule's begin-Pattern wins.
BeginWins(g) ==
  /\ Running
  /\ \E o \in { Outcome(g, text, stack, offset) } :
       /\ o.kind = "begin"
       /\ stack' = o.stack
       /\ tokens' = tokens \o o.emit
       /\ offset' = o.e
  /\ UNCHANGED text
  /\ UNCHANGED << runs, smlVars >>

\* Step 5: the active frame's own end-Pattern wins.
EndWins(g) ==
  /\ Running
  /\ \E o \in { Outcome(g, text, stack, offset) } :
       /\ o.kind = "end"
       /\ tokens' = tokens \o o.emit
       /\ stack' = o.stack
       /\ offset' = o.e
  /\ UNCHANGED text
  /\ UNCHANGED << runs, smlVars >>

\* Step 6 with the innermost frame closed as the text unit goes by.
NothingWinsClosing(g) ==
  /\ Running
  /\ \E o \in { Outcome(g, text, stack, offset) } :
       /\ o.kind = "none"
       /\ tokens' = tokens \o o.emit
       /\ offset' = o.e
  /\ stack' = SubSeq(stack, 1, Len(stack) - 1)
  /\ UNCHANGED text
  /\ UNCHANGED << runs, smlVars >>

\* Step 6: nothing matches; one text unit goes by with the enclosing scopes.
NothingWins(g) ==
  /\ Running
  /\ \E o \in { Outcome(g, text, stack, offset) } :
       /\ o.kind = "none"
       /\ tokens' = tokens \o o.emit
       /\ offset' = o.e
  /\ UNCHANGED << text, stack >>
  /\ UNCHANGED << runs, smlVars >>

\* The tokenizer's steps over the Standard ML grammar.
MatchStep == MatchWins(grammar)
PushStep == BeginWins(grammar)
PopStep == EndWins(grammar)
AdvanceStep == NothingWins(grammar)

(***************************************************************************)
(* extension.ts.  A JavaScript string is a sequence of characters; the     *)
(* value undefined and the number NaN are kept apart from strings and      *)
(* numbers by their shape: a number is << n >> and NaN is << >>.           *)
(***************************************************************************)
Undefined == << "undefined" >>
NaN == << >>

\* The characters that \s matches, of those that occur in the outputs.
Whitespace == {" ", "\t", "\n", "\r"}

\* The pattern "." matches any character but a line terminator.
AnyChar == Atom([k |-> "any"])
lazyOne(arg) == Quant("lplus", arg)

\* Pattern.diagnostic:
\* /^(.+?):(\d+)\.(\d+)(?:-(\d+).(\d+))?\s(\b(?:Error)\b):\s(.*(?:\n\s+.*)*)/m
Pattern_diagnostic ==
  seq(<< Bol, capture(1, lazyOne(AnyChar)), Chr(":"),
         capture(2, manyOne(set(Digit))), Chr("."),
         capture(3, manyOne(set(Digit))),
         opt(group(seq(<< Chr("-"), capture(4, manyOne(set(Digit))), AnyChar,
                          capture(5, manyOne(set(Digit))) >>))),
         set(Whitespace),
         capture(6, seq(<< WordB, group(Str(<< "E", "r", "r", "o", "r" >>)), WordB >>)),
         Chr(":"), set(Whitespace),
         capture(7, seq(<< many(AnyChar),
                           many(group(seq(<< Chr("\n"), manyOne(set(Whitespace)),
                                             many(AnyChar) >>))) >>)) >>)

\* String.prototype.match with a pattern that is not global: the match at the
\* leftmost offset that has one, as << m >>, or << >> for null.
Exec(t, p) ==
  LET starts == { i \in 0..Len(t) : Len(Match(t, p, i)) > 0 }
      s == CHOOSE i \in starts : \A j \in starts : i <= j
      m == Match(t, p, s)[1]
  IN  IF starts = {} THEN << >> ELSE << [s |-> s, e |-> m.e, c |-> m.c] >>

\* The capture n of a match on t: its text, or undefined when the group took
\* no part.
Group(t, m, n) ==
  IF \E k \in 1..Len(m.c) : m.c[k][1] = n
  THEN LET g == m.c[CHOOSE k \in 1..Len(m.c) : m.c[k][1] = n]
       IN  SubSeq(t, g[2] + 1, g[3])
  ELSE Undefined

DigitValue(c) ==
  CASE c = "0" -> 0 [] c = "1" -> 1 [] c = "2" -> 2 [] c = "3" -> 3 [] c = "4" -> 4
    [] c = "5" -> 5 [] c = "6" -> 6 [] c = "7" -> 7 [] c = "8" -> 8 [] c = "9" -> 9

RECURSIVE Decimal(_)
Decimal(str) ==
  IF Len(str) = 0 THEN 0
  ELSE 10 * Decimal(SubSeq(str, 1, Len(str) - 1)) + DigitValue(str[Len(str)])

\* parseInt(str, 10) of a captured run of digits, or of undefined.
parseInt(str) == IF str = Undefined THEN NaN ELSE << Decimal(str) >>

\* x - 1 and x || y on numbers: NaN - 1 is NaN; 0 and NaN are falsy.
MinusOne(x) == IF x = NaN THEN NaN ELSE << x[1] - 1 >>
OrElse(x, y) == IF x = NaN \/ x = << 0 >> THEN y ELSE x

\* The paths on which vs.Uri.parse throws.
UriThrows(path) == path = << "%" >>

\* collatedDiagnostics is a Map whose keys are Uri objects: has and get find
\* an entry by the identity of the key object.
MapHas(map, key) == \E k \in 1..Len(map) : map[k].key = key

MapPush(map, key, item) ==
  [k \in 1..Len(map) |->
     IF map[k].key = key THEN [map[k] EXCEPT !.value = Append(@, item)] ELSE map[k]]

\* The vs.Diagnostic built from the match m on line (lines 130-137).
Diagnostic(line, m) ==
  LET startLine == MinusOne(parseInt(Group(line, m, 2)))
      startChar == MinusOne(parseInt(Group(line, m, 3)))
      endLine == OrElse(MinusOne(parseInt(Group(line, m, 4))), startLine)
      endChar == OrElse(MinusOne(parseInt(Group(line, m, 5))), startChar)
  IN  [ range |-> << startLine[1], startChar[1], endLine[1], endChar[1] >>,
        message |-> Group(line, m, 7),
        severity |-> "Error" ]

\* The loop that stops at the first line that is no diagnostic.
RECURSIVE CollateAborting(_, _, _)
CollateAborting(response, n, collated) ==
  IF n > Len(response) THEN collated
  ELSE LET line == response[n]
           found == Exec(line, Pattern_diagnostic)
       IN  IF Len(found) = 0 THEN collated
           ELSE LET path == Group(line, found[1], 1)
                    uri == [object |-> n, path |-> path]
                    keyed == IF MapHas(collated, uri) THEN collated
                             ELSE Append(collated, [key |-> uri, value |-> << >>])
                IN  IF UriThrows(path) THEN collated
                    ELSE CollateAborting(response, n + 1,
                           MapPush(keyed, uri, Diagnostic(line, found[1])))

\* The loop of the listener over the lines of a batch, from line n on, with
\* the Map built so far; each Uri.parse makes a new object, here numbered by
\* the line it was made for.
RECURSIVE Collate(_, _, _)
Collate(response, n, collated) ==
  IF n > Len(response) THEN collated
  ELSE LET line == response[n]
           found == Exec(line, Pattern_diagnostic)
       IN  IF Len(found) = 0 THEN Collate(response, n + 1, collated)
           ELSE LET path == Group(line, found[1], 1)
                    uri == [object |-> n, path |-> path]
                    keyed == IF MapHas(collated, uri) THEN collated
                             ELSE Append(collated, [key |-> uri, value |-> << >>])
                IN  IF UriThrows(path) THEN Collate(response, n + 1, collated)
                    ELSE Collate(response, n + 1,
                           MapPush(keyed, uri, Diagnostic(line, found[1])))

IsSpace(c) == c \in Whitespace

\* data.toString().split(/\n(?!\s)/m): the pieces of data between its cuts,
\* the newlines that no whitespace follows.
Split(data) ==
  LET cuts == { i \in 1..Len(data) :
                  data[i] = "\n" /\ ~(i < Len(data) /\ IsSpace(data[i + 1])) }
      n == Cardinality(cuts)
      cut(k) == IF k = 0 THEN 0
                ELSE IF k = n + 1 THEN Len(data) + 1
                ELSE CHOOSE c \in cuts : Cardinality({ d \in cuts : d < c }) = k - 1
  IN  [k \in 1..(n + 1) |-> SubSeq(data, cut(k - 1) + 1, cut(k) - 1)]

Prompt == << "-", " " >>

\* Transducer.feed up to its check for the prompt: the lines and the
\* pendingLine after the pieces of data have been shifted in.
Fed(data) ==
  LET pieces == Split(data)
      n == Len(pieces)
  IN  [ lines |-> IF n = 1 THEN lines
                  ELSE lines \o << pendingLine \o pieces[1] >> \o SubSeq(pieces, 2, n - 1),
        pendingLine |-> IF n = 1 THEN pendingLine \o pieces[1] ELSE pieces[n] ]

\* One diagnostic with two indented continuation lines.
OutContinued ==
  << "a", ":", "3", ".", "1", "0", "-", "3", ".", "1", "5", " ", "E", "r",
     "r", "o", "r", ":", " ", "m", "\n", " ", "e", "\n", " ", "f", "\n" >>

\* A range that ends at column 1 of the next line.
OutEndsAtOne ==
  << "a", ":", "3", ".", "1", "0", "-", "4", ".", "1", " ", "E", "r", "r",
     "o", "r", ":", " ", "m", "\n" >>

\* Two diagnostics of one file, the first without an end position.
OutSameFile ==
  << "a", ":", "1", ".", "2", " ", "E", "r", "r", "o", "r", ":", " ", "m",
     "\n", "a", ":", "2", ".", "1", "-", "2", ".", "3", " ", "E", "r", "r",
     "o", "r", ":", " ", "n", "\n" >>

\* A line that is no diagnostic, one whose path does not resolve, and a diagnostic.
OutMixed ==
  << "j", "\n", "%", ":", "1", ".", "1", " ", "E", "r", "r", "o", "r", ":",
     " ", "m", "\n", "b", ":", "2", ".", "2", " ", "E", "r", "r", "o", "r",
     ":", " ", "n", "\n" >>

\* No output before the prompt.
OutNothing == <<>>

Outputs ==
  { OutContinued, OutEndsAtOne, OutSameFile, OutMixed, OutNothing }

MaxSaves == 2

\* Session.onDidSaveTextDocument for a document of language sml: SML.make
\* and, json being loaded, SML.execute up to its write of the command.
onDidSaveTextDocument ==
  /\ written < MaxSaves
  /\ written' = written + 1
  /\ callbacks' = Append(callbacks, written + 1)
  /\ resolved' = Append(resolved, 0)
  /\ UNCHANGED << lines, pendingLine, listeners, stdout, outputs, batches,
                  delivered, diagnostics >>
  /\ UNCHANGED << tokVars, procVars >>

\* The callback of process.stdin.write: the call's listener is registered.
WriteCallback ==
  /\ Len(callbacks) > 0
  /\ listeners' = Append(listeners, Head(callbacks))
  /\ callbacks' = Tail(callbacks)
  /\ UNCHANGED << lines, pendingLine, written, stdout, outputs, batches,
                  delivered, diagnostics, resolved >>
  /\ UNCHANGED << tokVars, procVars >>

\* The subprocess answers the next command it was written: some output,
\* then its prompt.  The write callback of a command runs before the
\* subprocess's answer to it can be read.
Respond ==
  /\ Len(outputs) < written
  /\ \A k \in 1..Len(callbacks) : callbacks[k] # Len(outputs) + 1
  /\ \E out \in Outputs :
       /\ outputs' = Append(outputs, out)
       /\ stdout' = stdout \o out \o Prompt
  /\ UNCHANGED << lines, pendingLine, listeners, callbacks, written, batches,
                  delivered, diagnostics, resolved >>
  /\ UNCHANGED << tokVars, procVars >>

\* A data event of process.stdout with a chunk that is not the prompt's end:
\* Transducer.feed takes it in.
FeedChunk ==
  /\ \E n \in 1..Len(stdout) :
       LET fed == Fed(SubSeq(stdout, 1, n))
       IN  /\ fed.pendingLine # Prompt
           /\ lines' = fed.lines
           /\ pendingLine' = fed.pendingLine
           /\ stdout' = SubSeq(stdout, n + 1, Len(stdout))
  /\ UNCHANGED << listeners, callbacks, written, outputs, batches, delivered,
                  diagnostics, resolved >>
  /\ UNCHANGED << tokVars, procVars >>

\* A data event after which the pendingLine is the prompt: Transducer.feed
\* emits "sml/lines" and no listener is registered.
FeedPromptUnheard ==
  /\ Len(listeners) = 0
  /\ \E n \in 1..Len(stdout) :
       LET fed == Fed(SubSeq(stdout, 1, n))
       IN  /\ fed.pendingLine = Prompt
           /\ stdout' = SubSeq(stdout, n + 1, Len(stdout))
  /\ lines' = << >>
  /\ pendingLine' = << >>
  /\ batches' = batches + 1
  /\ UNCHANGED << listeners, callbacks, written, outputs, delivered, diagnostics,
                  resolved >>
  /\ UNCHANGED << tokVars, procVars >>

\* FeedPrompt without the reset of this.lines after the emission.
FeedPromptKeepingLines ==
  /\ Len(listeners) > 0
  /\ \E n \in 1..Len(stdout) :
       LET fed == Fed(SubSeq(stdout, 1, n))
       IN  /\ fed.pendingLine = Prompt
           /\ stdout' = SubSeq(stdout, n + 1, Len(stdout))
           /\ delivered' = [batch |-> batches + 1, lines |-> fed.lines]
           /\ diagnostics' = Collate(fed.lines, 1, << >>)
           /\ lines' = fed.lines
  /\ pendingLine' = << >>
  /\ batches' = batches + 1
  /\ resolved' = [c \in 1..Len(resolved) |->
                    IF \E k \in 1..Len(listeners) : listeners[k] = c
                    THEN batches + 1 ELSE resolved[c]]
  /\ listeners' = << >>
  /\ UNCHANGED << callbacks, written, outputs >>
  /\ UNCHANGED << tokVars, procVars >>

\* A data event after which the pendingLine is the prompt: Transducer.feed
\* emits "sml/lines" with the lines, and every registered listener of
\* SML.execute runs, once: it collates the batch, sets the diagnostics and
\* resolves its call.
FeedPrompt ==
  /\ Len(listeners) > 0
  /\ \E n \in 1..Len(stdout) :
       LET fed == Fed(SubSeq(stdout, 1, n))
       IN  /\ fed.pendingLine = Prompt
           /\ stdout' = SubSeq(stdout, n + 1, Len(stdout))
           /\ delivered' = [batch |-> batches + 1, lines |-> fed.lines]
           /\ diagnostics' = Collate(fed.lines, 1, << >>)
  /\ lines' = << >>
  /\ pendingLine' = << >>
  /\ batches' = batches + 1
  /\ resolved' = [c \in 1..Len(resolved) |->
                    IF \E k \in 1..Len(listeners) : listeners[k] = c
                    THEN batches + 1 ELSE resolved[c]]
  /\ listeners' = << >>
  /\ UNCHANGED << callbacks, written, outputs >>
  /\ UNCHANGED << tokVars, procVars >>

\* this.process while it is undefined.
Null == 0

Call(pc, child) == [pc |-> pc, child |-> child]

Child(alive, stdin, prompted) ==
  [alive |-> alive, stdin |-> stdin, prompted |-> prompted]

MaxReloads == 3

\* SML.reload up to its first await: with a process, disconnect ends the
\* stdin of this.process and awaits the callback; without one, initialize
\* passes its check of this.process and awaits loadSmlJson.
reload ==
  /\ Len(reloads) < MaxReloads
  /\ IF process # Null
     THEN /\ children' = [children EXCEPT ![process].stdin = "ended"]
          /\ reloads' = Append(reloads, Call("stdin.end", process))
     ELSE /\ reloads' = Append(reloads, Call("loadSmlJson", Null))
          /\ UNCHANGED children
  /\ UNCHANGED << process, json >>
  /\ UNCHANGED << tokVars, execVars >>

\* SML.disconnect after the callback of stdin.end: the listener of "exit"
\* is put on what this.process is by now; without a process the call throws.
EndCallback(c) ==
  /\ reloads[c].pc = "stdin.end"
  /\ reloads' = [reloads EXCEPT ![c] =
                   IF process = Null THEN Call("threw", Null)
                   ELSE Call("exit", process)]
  /\ UNCHANGED << process, children, json >>
  /\ UNCHANGED << tokVars, execVars >>

\* The disconnect calls that await the "exit" event of the child p.
AwaitingExit(p) ==
  { c \in 1..Len(reloads) : reloads[c].pc = "exit" /\ reloads[c].child = p }

\* The "exit" event of the child p: each disconnect that awaits it deletes
\* this.process and returns, and initialize then passes its check of
\* this.process and awaits loadSmlJson.
Exit(p) ==
  /\ children' = [children EXCEPT ![p].alive = FALSE]
  /\ reloads' = [c \in 1..Len(reloads) |->
                   IF c \in AwaitingExit(p) THEN Call("loadSmlJson", Null)
                   ELSE reloads[c]]
  /\ process' = IF AwaitingExit(p) = {} THEN process ELSE Null
  /\ UNCHANGED json
  /\ UNCHANGED << tokVars, execVars >>

\* The child exits at the end of its input, which it reads at its prompt.
\* The callback of stdin.end runs before the exit of the child is seen.
ExitOnEof(p) ==
  /\ children[p].alive
  /\ children[p].stdin = "ended"
  /\ children[p].prompted
  /\ \A c \in 1..Len(reloads) :
       ~(reloads[c].pc = "stdin.end" /\ reloads[c].child = p)
  /\ Exit(p)

\* The child exits by itself, some time after its first prompt, while its
\* input is open.
ExitUnasked(p) ==
  /\ children[p].alive
  /\ children[p].stdin = "open"
  /\ children[p].prompted
  /\ Exit(p)

\* SML.initialize after loadSmlJson, whose result becomes this.json: without
\* a usable sml.json it returns; with one it spawns a child, keeps it as
\* this.process and awaits the first "sml/lines".
Loaded(c) ==
  /\ reloads[c].pc = "loadSmlJson"
  /\ \E usable \in BOOLEAN :
       /\ json' = usable
       /\ IF usable
          THEN /\ children' = Append(children, Child(TRUE, "open", FALSE))
               /\ process' = Len(children) + 1
               /\ reloads' = [reloads EXCEPT ![c] = Call("sml/lines", Len(children) + 1)]
          ELSE /\ reloads' = [reloads EXCEPT ![c] = Call("returned", Null)]
               /\ UNCHANGED << process, children >>
  /\ UNCHANGED << tokVars, execVars >>

\* The first prompt of the child p reaches the Transducer, which emits
\* "sml/lines": every initialize that awaits it returns.
FirstPrompt(p) ==
  /\ children[p].alive
  /\ ~children[p].prompted
  /\ children' = [children EXCEPT ![p].prompted = TRUE]
  /\ reloads' = [c \in 1..Len(reloads) |->
                   IF reloads[c].pc = "sml/lines" THEN Call("returned", Null)
                   ELSE reloads[c]]
  /\ UNCHANGED << process, json >>
  /\ UNCHANGED << tokVars, execVars >>

\* Transducer and the execute calls with nothing pending.
ExecIdle ==
  /\ lines = << >>
  /\ pendingLine = << >>
  /\ listeners = << >>
  /\ callbacks = << >>
  /\ written = 0
  /\ stdout = << >>
  /\ outputs = << >>
  /\ batches = 0
  /\ delivered = [batch |-> 0, lines |-> << >>]
  /\ diagnostics = << >>
  /\ resolved = << >>

\* The collaborator after SML.initialize: the subprocess is running, its
\* first prompt has been taken, and nothing is pending.
SmlIdle ==
  /\ ExecIdle
  /\ process = 1
  /\ children = << Child(TRUE, "open", TRUE) >>
  /\ reloads = << Call("returned", Null) >>
  /\ json = TRUE

(***************************************************************************)
(* The input texts of the tokenizer runs: every concatenation of at most   *)
(* MaxLexemes lexemes, every balanced comment text of at most              *)
(* MaxCommentLexemes lexemes, and the texts the properties name.           *)
(***************************************************************************)
MaxLexemes == 3
MaxCommentLexemes == 6

Lexemes ==
  << <<"v","a","l">>, <<"f","u","n">>, <<" ">>, <<"x">>, <<"=">>, <<"(">>,
     <<"(","*">>, <<"*",")">> >>

CommentLexemes == << <<"(","*">>, <<"*",")">>, <<"x">> >>

RECURSIVE TextsOver(_, _)
TextsOver(lex, n) ==
  IF n = 0 THEN { <<>> }
  ELSE LET prev == TextsOver(lex, n - 1)
       IN  prev \cup { p \o lex[k] : p \in prev, k \in 1..Len(lex) }

\* The nesting depth of comment delimiters in t[0..i), read left to right:
\* "(*" opens, "*)" closes; -1 once a closer has nothing to close.
RECURSIVE NestDepth(_, _, _, _)
NestDepth(t, i, j, d) ==
  IF d < 0 \/ j >= i THEN d
  ELSE IF j + 1 < Len(t) /\ t[j + 1] = "(" /\ t[j + 2] = "*"
       THEN NestDepth(t, i, j + 2, d + 1)
  ELSE IF j + 1 < Len(t) /\ t[j + 1] = "*" /\ t[j + 2] = ")"
       THEN NestDepth(t, i, j + 2, d - 1)
  ELSE NestDepth(t, i, j + 1, d)

DepthAt(t, i) == NestDepth(t, i, 0, 0)

Balanced(t) ==
  /\ DepthAt(t, Len(t)) = 0
  /\ \A i \in 0..Len(t) : DepthAt(t, i) >= 0

CommentTexts ==
  { t \in TextsOver(CommentLexemes, MaxCommentLexemes) : Len(t) > 0 /\ Balanced(t) }

TwoVals ==
  << "v","a","l"," ","x"," ","="," ","1"," ","v","a","l"," ","y"," ","="," ","2" >>

WhereType ==
  << "s","i","g","n","a","t","u","r","e"," ","S"," ","="," ","T"," ",
     "w","h","e","r","e"," ","t","y","p","e"," ","t"," ","="," ","i","n","t"," ",
     "e","n","d" >>

TypeThenVal ==
  << "t","y","p","e"," ","t"," ","="," ","i","n","t"," ","v","a","l"," ","x"," ",
     "="," ","1" >>

TypedVal == << "v","a","l"," ","x",":","'","a" >>

\* A value binding whose name is followed by the operator "::".
ConsBinding == << "v","a","l"," ","x"," ",":",":"," ","t" >>

\* A value binding whose body is the identifier xtrue.
KeywordInside == << "v","a","l"," ","x"," ","="," ","x","t","r","u","e" >>

\* Value bindings whose body is a qualified name, its last segment in lower
\* case and in upper case.
QualifiedValue ==
  << "v","a","l"," ","x"," ","="," ","F","o","o",".","b","a","r" >>

QualifiedConstructor ==
  << "v","a","l"," ","x"," ","="," ","F","o","o",".","B","a","r" >>

\* Function-clause bindings with and without a return type.
FunTyped ==
  << "f","u","n"," ","f"," ","x"," ",":"," ","t"," ","="," ","e" >>

FunPlain == << "f","u","n"," ","f"," ","x"," ","="," ","e" >>

\* Value bindings whose body is a string literal: one that holds an escaped
\* quote, and one that holds an escaped backslash right before its closing
\* quote.
StringEscapedQuote ==
  << "v","a","l"," ","x"," ","="," ","\"","\\","\"","\""," ","1" >>

StringEscapedBackslash ==
  << "v","a","l"," ","x"," ","="," ","\"","\\","\\","\""," ","1" >>

\* A value binding that names its value with the keyword val, and one whose
\* body has a "|" on its own between two spaces.
KeywordName == << "v","a","l"," ","v","a","l"," ","="," ","1" >>

LoneBar == << "v","a","l"," ","x"," ","="," ","f","n"," ","|"," ","y" >>

NamedTexts ==
  { TwoVals, WhereType, TypeThenVal, TypedVal, ConsBinding, KeywordInside,
    QualifiedValue, QualifiedConstructor, FunTyped, FunPlain,
    StringEscapedQuote, StringEscapedBackslash, KeywordName, LoneBar }

Inputs == TextsOver(Lexemes, MaxLexemes) \cup CommentTexts \cup NamedTexts

TokInit ==
  /\ text \in Inputs
  /\ offset = 0
  /\ stack = <<>>
  /\ tokens = <<>>
  /\ runs = <<>>
  /\ SmlIdle

TokNext == MatchStep \/ PushStep \/ PopStep \/ AdvanceStep

vars == << text, offset, stack, tokens, runs, lines, pendingLine, listeners, callbacks,
          written, stdout, outputs, batches, delivered, diagnostics, resolved,
          process, children, reloads, json >>

Spec == TokInit /\ [][TokNext]_vars

\* The scan loop runs its next step whenever there is one.
LiveSpec == Spec /\ WF_vars(TokNext)

Finished == offset = Len(text)

\* One run after the other: a finished run is put on record and the next
\* one starts over a text of its own from a fresh scan state.
MaxRuns == 3

\* A name on its own, which reads differently inside a binding.
BareName == << "x" >>

RerunTexts == { TypedVal, ConsBinding, BareName }

\* The next run starts with the frames the last one left open.
RerunKeepingStack ==
  /\ Finished
  /\ Len(runs) < MaxRuns
  /\ runs' = Append(runs, [text |-> text, tokens |-> tokens])
  /\ text' \in RerunTexts
  /\ offset' = 0
  /\ tokens' = <<>>
  /\ UNCHANGED << stack, smlVars >>

Rerun ==
  /\ Finished
  /\ Len(runs) < MaxRuns
  /\ runs' = Append(runs, [text |-> text, tokens |-> tokens])
  /\ text' \in RerunTexts
  /\ offset' = 0
  /\ stack' = <<>>
  /\ tokens' = <<>>
  /\ UNCHANGED smlVars

RerunInit ==
  /\ text \in RerunTexts
  /\ offset = 0
  /\ stack = <<>>
  /\ tokens = <<>>
  /\ runs = <<>>
  /\ SmlIdle

RerunNext == MatchStep \/ PushStep \/ PopStep \/ AdvanceStep \/ Rerun

RerunSpec == RerunInit /\ [][RerunNext]_vars

\* The runs of the diagnostic collaborator: saves, the subprocess's answers
\* and the chunks its output arrives in.
SmlInit ==
  /\ text = <<>>
  /\ offset = 0
  /\ stack = <<>>
  /\ tokens = <<>>
  /\ runs = <<>>
  /\ SmlIdle

SmlNext ==
  \/ onDidSaveTextDocument
  \/ WriteCallback
  \/ Respond
  \/ FeedChunk
  \/ FeedPromptUnheard
  \/ FeedPrompt

SmlSpec == SmlInit /\ [][SmlNext]_vars

\* The calls of SML.reload, from the construction of the SML object on: the
\* initial reload of Session.initialize and those of the watcher's events.
ReloadInit ==
  /\ text = <<>>
  /\ offset = 0
  /\ stack = <<>>
  /\ tokens = <<>>
  /\ runs = <<>>
  /\ ExecIdle
  /\ process = Null
  /\ children = << >>
  /\ reloads = << >>
  /\ json = FALSE

ReloadNext ==
  \/ reload
  \/ \E c \in 1..Len(reloads) : EndCallback(c)
  \/ \E p \in 1..Len(children) : ExitOnEof(p)
  \/ \E p \in 1..Len(children) : ExitUnasked(p)
  \/ \E c \in 1..Len(reloads) : Loaded(c)
  \/ \E p \in 1..Len(children) : FirstPrompt(p)

ReloadSpec == ReloadInit /\ [][ReloadNext]_vars

\* Callbacks that are due run, a child whose input has ended exits, and a
\* child that is alive writes its prompt; nothing makes a watcher event
\* happen or a child exit by itself.
LiveReloadSpec ==
  /\ ReloadSpec
  /\ WF_vars(\E c \in 1..Len(reloads) : EndCallback(c))
  /\ WF_vars(\E p \in 1..Len(children) : ExitOnEof(p))
  /\ WF_vars(\E c \in 1..Len(reloads) : Loaded(c))
  /\ WF_vars(\E p \in 1..Len(children) : FirstPrompt(p))

C2_Terminates == <>Finished

\* C3: in "val x = 1 val y = 2" the first decVal region, begun at offset 0
\* from the root, stays open up to offset 10 (where the second val begins);
\* past offset 10 every frame opened before it is gone and the frame at the
\* bottom of the stack is a new decVal region begun at offset 10; no token
\* straddles offset 10, and no token before it was emitted under a frame of
\* the second binding nor any token after it under a frame of the first.
C3_TwoRegions ==
  text = TwoVals =>
    /\ offset \in 1..9 => /\ Len(stack) >= 1
                          /\ stack[1] = [rule |-> << "decVal" >>, start |-> 0]
    /\ offset > 10 => /\ Len(stack) >= 1
                      /\ stack[1] = [rule |-> << "decVal" >>, start |-> 10]
                      /\ \A k \in 1..Len(stack) : stack[k].start >= 10
    /\ \A k \in 1..Len(tokens) :
         /\ tokens[k].s >= 10 \/ tokens[k].e <= 10
         /\ \A f \in 1..Len(tokens[k].frames) :
              (tokens[k].frames[f].start < 10) = (tokens[k].e <= 10)

C3_Witness ==
  /\ text = TwoVals
  /\ Finished
  /\ \E k \in 1..Len(tokens) :
       /\ tokens[k].s = 10 /\ tokens[k].e = 13
       /\ tokens[k].scopes = << "source.sml", Sco.VAL >>
       /\ tokens[k].frames = << [rule |-> << "decVal" >>, start |-> 10] >>

\* C4: in "signature S = T where type t = int end" the where-region opened
\* at offset 16 is still open at every offset from 21 to 34, and the type
\* keyword at offset 22 opens a decType region nested in it, open from offset
\* 26 to 34; in "type t = int val x = 1" the decType region opened at offset
\* 0 is gone past offset 13, where val is read as the keyword that opens a
\* new decVal region from the root.
C4_WhereTypeAsymmetry ==
  /\ text = WhereType =>
       /\ offset \in 21..34 =>
            /\ Len(stack) >= 3
            /\ stack[3] = [rule |-> << "sigexp", 3 >>, start |-> 16]
       /\ offset \in 26..34 =>
            /\ Len(stack) >= 4
            /\ stack[4] = [rule |-> << "decType", 1 >>, start |-> 22]
       /\ \A k \in 1..Len(tokens) :
            tokens[k].s = 22 =>
              /\ tokens[k].e = 26
              /\ tokens[k].scopes = << "source.sml", Sco.KEYWORD >>
              /\ Len(tokens[k].frames) = 4
              /\ tokens[k].frames[3] = [rule |-> << "sigexp", 3 >>, start |-> 16]
              /\ tokens[k].frames[4] = [rule |-> << "decType", 1 >>, start |-> 22]
  /\ text = TypeThenVal =>
       /\ offset \in 4..12 =>
            /\ Len(stack) >= 1
            /\ stack[1] = [rule |-> << "decType", 1 >>, start |-> 0]
       /\ offset > 13 =>
            /\ Len(stack) >= 1
            /\ stack[1] = [rule |-> << "decVal" >>, start |-> 13]
            /\ \A k \in 1..Len(stack) : stack[k].start >= 13
       /\ \A k \in 1..Len(tokens) :
            /\ tokens[k].s >= 13 \/ tokens[k].e <= 13
            /\ tokens[k].s = 13 =>
                 /\ tokens[k].e = 16
                 /\ tokens[k].scopes = << "source.sml", Sco.VAL >>
                 /\ tokens[k].frames = << [rule |-> << "decVal" >>, start |-> 13] >>

\* The scan of the where-type text is inside the nested type binding, with
\* the type keyword's token emitted.
C4_Witness ==
  /\ text = WhereType
  /\ offset = 34
  /\ \E k \in 1..Len(tokens) : tokens[k].s = 22 /\ tokens[k].e = 26

\* Comment scopes, one for each of n open comment regions.
CommentScopes(n) == [k \in 1..n |-> Sco.COMMENT]

\* C5: in a text of balanced comment delimiters the open frames are comment
\* frames, as many as the nesting depth of the delimiters read so far, so
\* that the stack is back at its depth before an outermost opener exactly at
\* the matching outermost closer; and every token emitted inside a comment
\* carries the comment scope of each open comment and nothing else.
C5_NestedComment ==
  text \in CommentTexts =>
    /\ Len(stack) = DepthAt(text, offset)
    /\ \A k \in 1..Len(stack) : stack[k].rule = << "comment" >>
    /\ \A k \in 1..Len(tokens) :
         Len(tokens[k].frames) > 0 =>
           tokens[k].scopes = << "source.sml" >> \o CommentScopes(Len(tokens[k].frames))

\* A comment nested in a comment has been scanned to its end.
C5_Witness ==
  /\ text = << "(","*", "(","*", "x", "*",")", "x", "*",")" >>
  /\ Finished
  /\ Len(stack) = 0
  /\ \E k \in 1..Len(tokens) : Len(tokens[k].frames) = 2

(***************************************************************************)
(* Properties of the diagnostic collaborator.                              *)
(***************************************************************************)

\* The commands written whose batch has not been emitted yet.
InFlight == written - batches

\* C6: commands follow a request/response discipline: at most one command is
\* in flight at any time, and an execute call is resolved by the batch that
\* answers its own command, the c-th batch for the c-th command, also when
\* several saves follow one another quickly.
C6_RequestResponse ==
  /\ InFlight <= 1
  /\ \A c \in 1..Len(resolved) : resolved[c] \in {0, c}

\* C7: when the subprocess answers the only command with a header line, its
\* indented continuation lines and the prompt, completion is signalled once,
\* after the prompt, and the diagnostics are exactly one diagnostic for the
\* file, whose message holds the header's message and every continuation
\* line.
C7_ContinuedDiagnostic ==
  (written = 1 /\ outputs = << OutContinued >>) =>
    /\ batches <= 1
    /\ batches = 1 =>
         /\ stdout = << >>
         /\ resolved = << 1 >>
         /\ Len(diagnostics) = 1
         /\ diagnostics[1].key.path = << "a" >>
         /\ Len(diagnostics[1].value) = 1
         /\ diagnostics[1].value[1].message
              = << "m", "\n", " ", "e", "\n", " ", "f" >>

\* The range that the positions of a matched line stand for: the start, and
\* the end where the line has one, each one less than written.
ExpectedRange(line, m) ==
  LET number(n) == Decimal(Group(line, m, n))
  IN  IF Group(line, m, 4) = Undefined
      THEN << number(2) - 1, number(3) - 1, number(2) - 1, number(3) - 1 >>
      ELSE << number(2) - 1, number(3) - 1, number(4) - 1, number(5) - 1 >>

\* C8: every diagnostic's range starts at (startLine-1, startCol-1) and ends
\* at (endLine-1, endCol-1) when the line has an end position, whatever its
\* values, 1 included, and at the start when it has none.
C8_ZeroBasedRange ==
  \A k \in 1..Len(diagnostics) : \A j \in 1..Len(diagnostics[k].value) :
    LET line == delivered.lines[diagnostics[k].key.object]
    IN  diagnostics[k].value[j].range
          = ExpectedRange(line, Exec(line, Pattern_diagnostic)[1])

\* C9: the collated map never holds two entries for the same file: the
\* diagnostics of one file are in one list under one key.
C9_OneKeyPerFile ==
  \A j, k \in 1..Len(diagnostics) :
    diagnostics[j].key.path = diagnostics[k].key.path => j = k

\* The lines of the delivered batch that are diagnostics of a path that
\* resolves.
Contributing ==
  { n \in 1..Len(delivered.lines) :
      LET found == Exec(delivered.lines[n], Pattern_diagnostic)
      IN  /\ Len(found) > 0
          /\ ~UriThrows(Group(delivered.lines[n], found[1], 1)) }

RECURSIVE Count(_, _)
Count(map, k) == IF k = 0 THEN 0 ELSE Count(map, k - 1) + Len(map[k].value)

\* C10: a line of the batch that is no diagnostic, or whose path does not
\* resolve, yields nothing and stops nothing: the diagnostics set are those of
\* exactly the other lines, one each, and the batch is delivered to a
\* listener that resolves its call.
C10_SkipsOnlyBadLines ==
  /\ \A n \in Contributing :
       \E k \in 1..Len(diagnostics) : \E j \in 1..Len(diagnostics[k].value) :
         LET line == delivered.lines[n]
             m == Exec(line, Pattern_diagnostic)[1]
         IN  /\ diagnostics[k].key.path = Group(line, m, 1)
             /\ diagnostics[k].value[j].message = Group(line, m, 7)
             /\ diagnostics[k].key.object = n
  /\ Count(diagnostics, Len(diagnostics)) = Cardinality(Contributing)
  /\ delivered.batch > 0 =>
       \E c \in 1..Len(resolved) : resolved[c] = delivered.batch

\* A batch delivered with a line that is no diagnostic, a line whose path does
\* not resolve and, after them, a diagnostic, which is the one diagnostic set.
C10_Witness ==
  /\ delivered.batch = 1
  /\ Len(delivered.lines) = 3
  /\ delivered.lines[1] = << "j" >>
  /\ Exec(delivered.lines[2], Pattern_diagnostic) # << >>
  /\ UriThrows(Group(delivered.lines[2], Exec(delivered.lines[2], Pattern_diagnostic)[1], 1))
  /\ Contributing = {3}
  /\ Len(diagnostics) = 1
  /\ diagnostics[1].key.path = << "b" >>
  /\ resolved = << 1 >>

\* The text of the k-th token.
TokenText(k) == SubSeq(text, tokens[k].s + 1, tokens[k].e)

\* C11: a token that carries the scope of the true/false constant rule and
\* reads true or false has no word character on either side of it, and a
\* token that carries the scope of a ":" or "=" terminator and reads ":" or
\* "=" has no operator character on either side of it.
C11_Boundaries ==
  \A k \in 1..Len(tokens) :
    /\ ( /\ TokenText(k) \in { <<"t","r","u","e">>, <<"f","a","l","s","e">> }
         /\ \E n \in 1..Len(tokens[k].scopes) : tokens[k].scopes[n] = Sco.CONSTRUCTOR )
       => ~IsWordAt(text, tokens[k].s) /\ ~IsWordAt(text, tokens[k].e + 1)
    /\ ( /\ TokenText(k) \in { <<":">>, <<"=">> }
         /\ \E n \in 1..Len(tokens[k].scopes) : tokens[k].scopes[n] = Sco.COLON )
       => /\ tokens[k].s = 0 \/ text[tokens[k].s] \notin TokSet_operator
          /\ tokens[k].e = Len(text) \/ text[tokens[k].e + 1] \notin TokSet_operator

\* The innermost scope of the token that spans [s, e), or none when the
\* tokens have no such token.
ScopeOver(s, e) ==
  IF \E k \in 1..Len(tokens) : tokens[k].s = s /\ tokens[k].e = e
  THEN LET k == CHOOSE k \in 1..Len(tokens) : tokens[k].s = s /\ tokens[k].e = e
       IN  tokens[k].scopes[Len(tokens[k].scopes)]
  ELSE "none"

\* C12: once "val x = Foo.bar" or "val x = Foo.Bar" is read to its end, Foo
\* (offsets 8 to 11) is one token with the module-name scope, the dot (11 to
\* 12) one token with the dot scope, and the last segment (12 to 15) one
\* token with a scope of its own: the constructor scope for Bar, and for bar
\* a scope that is neither the constructor scope nor the root scope alone.
C12_QualifiedName ==
  (Finished /\ text \in { QualifiedValue, QualifiedConstructor }) =>
    /\ ScopeOver(8, 11) = Sco.MODULE_NAME
    /\ ScopeOver(11, 12) = Sco.DOT
    /\ text = QualifiedConstructor => ScopeOver(12, 15) = Sco.CONSTRUCTOR
    /\ text = QualifiedValue =>
         ScopeOver(12, 15) \notin { "none", "source.sml", Sco.CONSTRUCTOR }

RECURSIVE Includes(_)
Includes(r) ==
  (IF IsInclude(r) THEN { r.include } ELSE {})
    \cup UNION { Includes(Nested(r)[k]) : k \in 1..Len(Nested(r)) }

\* C14: every name included from the root pattern list or from a rule of the
\* repository, at any nesting depth, is a key of the repository; so is, at
\* every point of a run, every name included from the rule of an open frame.
C14_Resolvable ==
  /\ Includes(grammar) \subseteq DOMAIN grammar.repository
  /\ \A name \in DOMAIN grammar.repository :
       Includes(grammar.repository[name]) \subseteq DOMAIN grammar.repository
  /\ \A k \in 1..Len(stack) :
       Includes(RuleAt(grammar, stack[k].rule)) \subseteq DOMAIN grammar.repository

\* A run has opened a region that the root reaches only through includes
\* nested in other rules: the qualified-name prefix inside a binding's body.
C14_Witness ==
  /\ text = QualifiedValue
  /\ Len(stack) = 3
  /\ stack[3].rule = << "qualifiedPrefix" >>
  /\ "qualifiedPrefix" \in Includes(grammar.repository["qualifiedConstant"])

FunFrames(n, i) ==
  << [rule |-> << "dec", 4 >>, start |-> 0],
     [rule |-> << "fvalbind", n >>, start |-> i] >>

\* Whether the token spanning [s, e) carries the terminator scope and was
\* emitted by the end-Pattern of the frames fs, which it closed.
Terminates(s, e, fs) ==
  \E k \in 1..Len(tokens) :
    /\ tokens[k].s = s /\ tokens[k].e = e
    /\ tokens[k].scopes = << "source.sml", Sco.COLON >>
    /\ tokens[k].frames = fs

RECURSIVE Joined(_, _)
Joined(ls, p) ==
  IF Len(ls) = 0 THEN p ELSE Head(ls) \o << "\n" >> \o Joined(Tail(ls), p)

\* C17: a step that emits a batch is a step that consumes a chunk and after
\* which the pending line, before it is reset, is exactly "- "; a step that
\* consumes a chunk and leaves another pending line emits nothing, keeps the
\* lines it had in their order and adds the chunk's characters after them;
\* the lines of an emitted batch, the prompt after them, are the characters
\* accumulated since the last emission in their order of arrival; and after
\* an emission the line list and the pending line are empty, so that no
\* line is in two batches.
C17_EmitsOnPrompt ==
  [][ LET n == Len(stdout) - Len(stdout')
          chunk == SubSeq(stdout, 1, n)
          sofar == Joined(lines, pendingLine) \o chunk
      IN  /\ batches' # batches => n > 0 /\ batches' = batches + 1
          /\ (n > 0 /\ batches' = batches) =>
               /\ pendingLine' # Prompt
               /\ Len(lines') >= Len(lines)
               /\ SubSeq(lines', 1, Len(lines)) = lines
               /\ Joined(lines', pendingLine') = sofar
          /\ (n > 0 /\ batches' # batches) =>
               /\ Len(sofar) >= 2
               /\ SubSeq(sofar, Len(sofar) - 1, Len(sofar)) = Prompt
               /\ lines' = << >>
               /\ pendingLine' = << >>
               /\ Len(listeners) > 0 =>
                    /\ delivered'.batch = batches'
                    /\ SubSeq(delivered'.lines, 1, Len(lines)) = lines
                    /\ Joined(delivered'.lines, Prompt) = sofar ]_vars

\* A batch of two lines was emitted to a listener, the Transducer is empty
\* again, and the answer to the next command waits in the pipe.
C17_Witness ==
  /\ batches = 1
  /\ delivered.batch = 1
  /\ Len(delivered.lines) = 2
  /\ Joined(delivered.lines, << >>) = OutSameFile
  /\ lines = << >>
  /\ pendingLine = << >>
  /\ Len(stdout) > 0

\* The batch that one feed call emits for the output out and the prompt
\* after it: the pieces of the split before the prompt.
WholeBatch(out) ==
  LET pieces == Split(out \o Prompt)
  IN  SubSeq(pieces, 1, Len(pieces) - 1)

\* C18: the lines of the batch delivered for a command's output are those
\* of feeding that output and its prompt in one call, in whatever chunks
\* the output came.
C18_ChunkingIndependent ==
  (delivered.batch > 0 /\ delivered.batch <= Len(outputs)) =>
    delivered.lines = WholeBatch(outputs[delivered.batch])

(***************************************************************************)
(* Properties of SML.reload, SML.disconnect and SML.initialize.            *)
(***************************************************************************)
Alive == { p \in 1..Len(children) : children[p].alive }

\* C19: at most one child is alive at any time, and a child that is alive
\* is the one this.process refers to.
C19_OneSubprocess ==
  /\ Cardinality(Alive) <= 1
  /\ \A p \in Alive : process = p

Returned(c) == Len(reloads) >= c /\ reloads[c].pc \in { "returned", "threw" }

\* C20: every call of reload that is made comes to its end.
C20_ReloadCompletes ==
  \A c \in 1..MaxReloads : (Len(reloads) >= c) ~> Returned(c)

\* Whether a save can call make: Session.initialize subscribes to the save
\* events once its own call of reload, the first, has returned.
Subscribed == Len(reloads) >= 1 /\ reloads[1].pc = "returned"

\* C21: whenever this.json is loaded and a save can call make,
\* this.process is a child that is alive and whose stdin is open.
C21_MakeTarget ==
  (json /\ Subscribed) =>
    /\ process # Null
    /\ children[process].alive
    /\ children[process].stdin = "open"

\* Offset of the first double quote of t at or after offset i that is not
\* part of an escape sequence, a backslash and the character after it being
\* one escape sequence; Len(t) when t has no such quote.
RECURSIVE Closing(_, _)
Closing(t, i) ==
  IF i >= Len(t) THEN Len(t)
  ELSE IF t[i + 1] = "\\" THEN Closing(t, i + 2)
  ELSE IF t[i + 1] = "\"" THEN i
  ELSE Closing(t, i + 1)

\* Whether token k was emitted with a string-literal region as the innermost
\* frame, opened at offset s.
InString(k, s) ==
  /\ Len(tokens[k].frames) > 0
  /\ tokens[k].frames[Len(tokens[k].frames)] =
       [rule |-> << "constantString" >>, start |-> s]

\* C22: a string-literal region opened by the quote at offset s closes at
\* the first later quote that is not part of an escape sequence: no token
\* inside the region ends past that quote, and every token between the
\* opening quote and that quote, the quote included, is inside the region.
C22_StringCloses ==
  \A s \in 0..Len(text) :
    (\E k \in 1..Len(tokens) : tokens[k].s = s /\ InString(k, s)) =>
      \A j \in 1..Len(tokens) :
        /\ InString(j, s) => tokens[j].e <= Closing(text, s + 1) + 1
        /\ (tokens[j].s > s /\ tokens[j].s <= Closing(text, s + 1)) => InString(j, s)

\* Whether pattern p matches t at offset i up to offset e.
MatchesSpan(t, p, i, e) ==
  Strict1(Match(t, p, i), LAMBDA rs : \E n \in 1..Len(rs) : rs[n].e = e)

\* Whether t[i..e) is a reserved keyword standing as a whole word.
KeywordSpan(t, i, e) == MatchesSpan(t, words(group(alt(AllKwd))), i, e)

\* C23: where the scan stands, Lex.vid and Lex.tyvar match no span of the
\* text that is a reserved keyword as a whole word, and Lex.operator does
\* not match a "|" that has no operator character next to it.
C23_LookAheadGuards ==
  Running =>
    \A e \in (offset + 1)..Len(text) :
      /\ KeywordSpan(text, offset, e) =>
           /\ ~MatchesSpan(text, LexVid, offset, e)
           /\ ~MatchesSpan(text, LexTyvar, offset, e)
      /\ ( /\ e = offset + 1
           /\ text[e] = "|"
           /\ offset = 0 \/ text[offset] \notin TokSet_operator
           /\ e = Len(text) \/ text[e + 1] \notin TokSet_operator )
         => ~MatchesSpan(text, LexOperator, offset, e)

====
